---- MODULE Spec2Model ----
(***************************************************************************)
(* Model of the list-page runtime of react-bg-hooks:                       *)
(*   - useSearch (src/unnamed/part_000): the search state engine with its   *)
(*     codec (encodeQueryData / decodeQueryData) and its storage adapters   *)
(*     (link query parameter, session cache).                               *)
(*   - useTable (src/src/useTable.tsx): the table hook with the pagination *)
(*     control, the format and truncation registries and the column        *)
(*     resolver useColumns.                                                 *)
(*                                                                         *)
(* Text is modelled as a sequence of character codes (UTF-16 code units,   *)
(* all inside the basic plane), so that the codec is computed character by *)
(* character as the code computes it.                                      *)
(***************************************************************************)
EXTENDS Integers, Sequences, FiniteSets, TLC

(***************************************************************************)
(* JavaScript values.  Every value is a record [t, s]: t is the kind and s  *)
(* a sequence of integers carrying the content (character codes of a       *)
(* string, the number itself, 0/1 of a boolean, the numbers of an array of  *)
(* numbers, the NUL-terminated strings of an array of strings).            *)
(* Absent is not a value: it marks a key an object does not have.          *)
(***************************************************************************)
Absent == [t |-> "absent", s |-> <<>>]
Undefined == [t |-> "undefined", s |-> <<>>]
Null == [t |-> "null", s |-> <<>>]
NaN == [t |-> "nan", s |-> <<>>]
Num(n) == [t |-> "number", s |-> <<n>>]
Str(cs) == [t |-> "string", s |-> cs]
Bool(b) == [t |-> "boolean", s |-> <<IF b THEN 1 ELSE 0>>]
Arr(ns) == [t |-> "array", s |-> ns]

(***************************************************************************)
(* Objects (query payload, pagination, static payload, fetch argument) are *)
(* total functions over Keys; a key the object lacks maps to Absent.        *)
(* Object.keys enumerates in KeyOrder.                                      *)
(***************************************************************************)
Keys == {"a", "b", "page", "pageSize"}
KeyOrder == <<"a", "b", "page", "pageSize">>
EmptyObject == [k \in Keys |-> Absent]
HasKey(o, k) == o[k] # Absent
OwnKeys(o) == {k \in Keys : HasKey(o, k)}

\* undefined or null where an object is expected (an omitted argument, an
\* option that is not set)
NoObject == [k \in Keys |-> [t |-> "none", s |-> <<>>]]

\* { ...a, ...b }: own keys of b override those of a; spreading undefined or
\* null adds nothing
Spread(a, b) ==
  [k \in Keys |-> IF b # NoObject /\ HasKey(b, k) THEN b[k]
                  ELSE IF a # NoObject THEN a[k] ELSE Absent]

\* the characters of a key
KeyText(k) ==
  CASE k = "a" -> <<97>>
    [] k = "b" -> <<98>>
    [] k = "page" -> <<112, 97, 103, 101>>
    [] k = "pageSize" -> <<112, 97, 103, 101, 83, 105, 122, 101>>

(***************************************************************************)
(* Text helpers.                                                            *)
(***************************************************************************)
\* the concatenation of the texts ss[lo..hi], by halves
RECURSIVE ConcatRange(_, _, _)
ConcatRange(ss, lo, hi) ==
  IF lo > hi THEN <<>>
  ELSE IF lo = hi THEN ss[lo]
  ELSE ConcatRange(ss, lo, (lo + hi) \div 2) \o ConcatRange(ss, (lo + hi) \div 2 + 1, hi)

Concat(ss) == ConcatRange(ss, 1, Len(ss))

\* Array.prototype.join over texts
Join(ss, sep) == Concat([i \in 1..Len(ss) |-> IF i = 1 THEN ss[i] ELSE sep \o ss[i]])

\* decimal digits of a natural number (Number.prototype.toString)
RECURSIVE Digits(_)
Digits(n) == IF n < 10 THEN <<48 + n>> ELSE Digits(n \div 10) \o <<48 + (n % 10)>>

IsDigit(c) == c >= 48 /\ c <= 57

\* a result of a call that may throw
Ok(v) == [ok |-> TRUE, v |-> v]
Thrown == [ok |-> FALSE, v |-> <<>>]

\* an array of strings (what qs.parse builds): each element ends with NUL
StrArr(elems) ==
  [t |-> "strarray", s |-> Concat([i \in 1..Len(elems) |-> elems[i] \o <<0>>])]

\* the position of the first c in cs at or after i, or 0
IndexOf(cs, c, i) ==
  IF \E p \in i..Len(cs) : cs[p] = c
  THEN CHOOSE p \in i..Len(cs) : cs[p] = c /\ \A q \in i..(p - 1) : cs[q] # c
  ELSE 0

\* String.prototype.split on a one-character separator
RECURSIVE Split(_, _)
Split(cs, c) ==
  LET p == IndexOf(cs, c, 1)
  IN IF p = 0 THEN <<cs>>
     ELSE <<SubSeq(cs, 1, p - 1)>> \o Split(SubSeq(cs, p + 1, Len(cs)), c)

\* the strings of an array of strings
Elements(v) == IF v.s = <<>> THEN <<>> ELSE Split(SubSeq(v.s, 1, Len(v.s) - 1), 0)

(***************************************************************************)
(* isUsefulValue                                                            *)
(***************************************************************************)
isUsefulValue(v) ==
  IF v.t \in {"array", "strarray"} THEN Len(v.s) # 0
  ELSE v # Undefined /\ v # Null /\ v # Str(<<>>)

(***************************************************************************)
(* JSON.stringify, for the values above.                                    *)
(***************************************************************************)
\* the characters of a string between the quotes: " and \ are escaped
JSONQuoteBody(cs) ==
  Concat([i \in 1..Len(cs) |-> IF cs[i] \in {34, 92} THEN <<92, cs[i]>> ELSE <<cs[i]>>])

JSONQuote(cs) == <<34>> \o JSONQuoteBody(cs) \o <<34>>

JSONStringifyValue(v) ==
  CASE v.t = "number" -> Digits(v.s[1])
    [] v.t = "string" -> JSONQuote(v.s)
    [] v.t = "boolean" -> IF v.s[1] = 1 THEN <<116, 114, 117, 101>>      \* true
                          ELSE <<102, 97, 108, 115, 101>>                \* false
    [] v.t \in {"null", "nan"} -> <<110, 117, 108, 108>>                  \* null
    [] v.t = "array" ->
         <<91>> \o Join([i \in 1..Len(v.s) |-> Digits(v.s[i])], <<44>>) \o <<93>>
    [] v.t = "strarray" ->
         <<91>> \o Join([i \in 1..Len(Elements(v)) |-> JSONQuote(Elements(v)[i])], <<44>>)
         \o <<93>>

\* the keys JSON.stringify writes: own keys whose value is not undefined
JSONMembers(o, ks) ==
  Concat([i \in 1..Len(ks) |->
            IF HasKey(o, ks[i]) /\ o[ks[i]] # Undefined
            THEN << JSONQuote(KeyText(ks[i])) \o <<58>> \o JSONStringifyValue(o[ks[i]]) >>
            ELSE <<>>])

JSONStringify(o) == <<123>> \o Join(JSONMembers(o, KeyOrder), <<44>>) \o <<125>>

(***************************************************************************)
(* encodeURIComponent / decodeURIComponent.  Characters are code units of  *)
(* the basic plane outside the surrogate range, so encoding never throws.  *)
(***************************************************************************)
IsAlnum(c) == IsDigit(c) \/ (c >= 65 /\ c <= 90) \/ (c >= 97 /\ c <= 122)
\* - _ . ! ~ * ' ( )
IsUriUnreserved(c) == IsAlnum(c) \/ c \in {45, 95, 46, 33, 126, 42, 39, 40, 41}

HexChar(n) == IF n < 10 THEN 48 + n ELSE 55 + n
IsHexChar(c) == IsDigit(c) \/ (c >= 65 /\ c <= 70) \/ (c >= 97 /\ c <= 102)
HexVal(c) == IF IsDigit(c) THEN c - 48 ELSE IF c >= 97 THEN c - 87 ELSE c - 55

Utf8(c) ==
  IF c < 128 THEN <<c>>
  ELSE IF c < 2048 THEN <<192 + (c \div 64), 128 + (c % 64)>>
  ELSE <<224 + (c \div 4096), 128 + ((c \div 64) % 64), 128 + (c % 64)>>

PercentByte(b) == <<37, HexChar(b \div 16), HexChar(b % 16)>>

\* the escapes of the UTF-8 bytes of a character
PercentEncode(c) == Concat([i \in 1..Len(Utf8(c)) |-> PercentByte(Utf8(c)[i])])

encodeURIComponent(cs) ==
  Concat([i \in 1..Len(cs) |-> IF IsUriUnreserved(cs[i]) THEN <<cs[i]>>
                                ELSE PercentEncode(cs[i])])

\* the byte of the escape %XX at position i of cs, or -1 when there is none
EscapeAt(cs, i) ==
  IF i + 2 <= Len(cs) /\ cs[i] = 37 /\ IsHexChar(cs[i + 1]) /\ IsHexChar(cs[i + 2])
  THEN 16 * HexVal(cs[i + 1]) + HexVal(cs[i + 2])
  ELSE -1

IsContinuation(b) == b >= 128 /\ b <= 191

IsLead2(b) == b >= 194 /\ b <= 223
IsLead3(b) == b >= 224 /\ b <= 239

\* the units of an escaped text: <<1, b>> for an escape %XX of byte b, <<0, c>>
\* for a character c that stands for itself (every % starts an escape)
UriUnits(cs) ==
  Concat([i \in 1..Len(cs) |->
            IF cs[i] = 37 THEN << <<1, EscapeAt(cs, i)>> >>
            ELSE IF (i > 1 /\ cs[i - 1] = 37) \/ (i > 2 /\ cs[i - 2] = 37) THEN <<>>
            ELSE << <<0, cs[i]>> >>])

\* the byte of unit j when it is an escape, else -1
UnitByte(us, j) == IF j >= 1 /\ j <= Len(us) /\ us[j][1] = 1 THEN us[j][2] ELSE -1

Code2(us, j) == (UnitByte(us, j) - 192) * 64 + (UnitByte(us, j + 1) - 128)
Code3(us, j) == (UnitByte(us, j) - 224) * 4096 + (UnitByte(us, j + 1) - 128) * 64
                + (UnitByte(us, j + 2) - 128)

\* unit j starts a well-formed two-byte or three-byte sequence
StartsSeq2(us, j) == IsLead2(UnitByte(us, j)) /\ IsContinuation(UnitByte(us, j + 1))
StartsSeq3(us, j) ==
  /\ IsLead3(UnitByte(us, j))
  /\ IsContinuation(UnitByte(us, j + 1)) /\ IsContinuation(UnitByte(us, j + 2))
  /\ Code3(us, j) >= 2048 /\ ~(Code3(us, j) >= 55296 /\ Code3(us, j) <= 57343)

\* unit j is a continuation byte of a well-formed sequence
ContinuesSeq(us, j) ==
  /\ IsContinuation(UnitByte(us, j))
  /\ (StartsSeq2(us, j - 1) \/ StartsSeq3(us, j - 1) \/ StartsSeq3(us, j - 2))

UnitChars(us, j) ==
  IF us[j][1] = 0 \/ us[j][2] < 128 THEN <<us[j][2]>>
  ELSE IF StartsSeq2(us, j) THEN <<Code2(us, j)>>
  ELSE IF StartsSeq3(us, j) THEN <<Code3(us, j)>>
  ELSE <<>>

\* A % that is not followed by two hexadecimal digits, or escapes that are not
\* well-formed UTF-8, are a URIError.  Four-byte sequences (characters outside
\* the basic plane) are outside the modelled characters.
decodeURIComponent(cs) ==
  LET us == UriUnits(cs)
  IN IF /\ \A i \in 1..Len(cs) : cs[i] = 37 => EscapeAt(cs, i) >= 0
        /\ \A j \in 1..Len(us) :
             \/ us[j][1] = 0
             \/ us[j][2] < 128
             \/ StartsSeq2(us, j) \/ StartsSeq3(us, j) \/ ContinuesSeq(us, j)
     THEN Ok(Concat([j \in 1..Len(us) |-> UnitChars(us, j)]))
     ELSE Thrown

(***************************************************************************)
(* btoa / atob (base64 over Latin-1 text).                                  *)
(***************************************************************************)
B64Char(n) ==
  IF n < 26 THEN 65 + n
  ELSE IF n < 52 THEN 97 + (n - 26)
  ELSE IF n < 62 THEN 48 + (n - 52)
  ELSE IF n = 62 THEN 43 ELSE 47

IsB64Char(c) == IsAlnum(c) \/ c = 43 \/ c = 47

B64Val(c) ==
  IF c >= 65 /\ c <= 90 THEN c - 65
  ELSE IF c >= 97 /\ c <= 122 THEN c - 97 + 26
  ELSE IF IsDigit(c) THEN c - 48 + 52
  ELSE IF c = 43 THEN 62 ELSE 63

\* the four characters of a group of one, two or three bytes
BtoaGroup(bs) ==
  IF Len(bs) = 1
    THEN <<B64Char(bs[1] \div 4), B64Char((bs[1] % 4) * 16), 61, 61>>
  ELSE IF Len(bs) = 2
    THEN <<B64Char(bs[1] \div 4), B64Char((bs[1] % 4) * 16 + (bs[2] \div 16)),
           B64Char((bs[2] % 16) * 4), 61>>
  ELSE <<B64Char(bs[1] \div 4), B64Char((bs[1] % 4) * 16 + (bs[2] \div 16)),
         B64Char((bs[2] % 16) * 4 + (bs[3] \div 64)), B64Char(bs[3] % 64)>>

Min(a, b) == IF a < b THEN a ELSE b

BtoaBytes(bs) ==
  Concat([g \in 1..((Len(bs) + 2) \div 3) |->
            BtoaGroup(SubSeq(bs, 3 * g - 2, Min(3 * g, Len(bs))))])

\* throws InvalidCharacterError on a character outside Latin-1
btoa(cs) ==
  IF \E i \in 1..Len(cs) : cs[i] > 255 THEN Thrown ELSE Ok(BtoaBytes(cs))

IsAsciiWhitespace(c) == c \in {9, 10, 12, 13, 32}

StripWhitespace(cs) ==
  Concat([i \in 1..Len(cs) |-> IF IsAsciiWhitespace(cs[i]) THEN <<>> ELSE <<cs[i]>>])

\* when the length is a multiple of 4, one or two trailing = are removed
StripPadding(cs) ==
  IF Len(cs) % 4 = 0 /\ Len(cs) > 0 /\ cs[Len(cs)] = 61
  THEN IF cs[Len(cs) - 1] = 61 THEN SubSeq(cs, 1, Len(cs) - 2)
       ELSE SubSeq(cs, 1, Len(cs) - 1)
  ELSE cs

\* the bytes of a group of two, three or four characters
AtobGroup(cs) ==
  LET v1 == B64Val(cs[1])
      v2 == B64Val(cs[2])
  IN IF Len(cs) = 2 THEN <<v1 * 4 + (v2 \div 16)>>
     ELSE IF Len(cs) = 3
       THEN <<v1 * 4 + (v2 \div 16), (v2 % 16) * 16 + (B64Val(cs[3]) \div 4)>>
     ELSE <<v1 * 4 + (v2 \div 16), (v2 % 16) * 16 + (B64Val(cs[3]) \div 4),
            (B64Val(cs[3]) % 4) * 64 + B64Val(cs[4])>>

\* the length of cs is not 1 modulo 4
AtobChars(cs) ==
  Concat([g \in 1..((Len(cs) + 3) \div 4) |->
            AtobGroup(SubSeq(cs, 4 * g - 3, Min(4 * g, Len(cs))))])

atob(cs) ==
  LET data == StripPadding(StripWhitespace(cs))
  IN IF Len(data) % 4 = 1 \/ (\E i \in 1..Len(data) : ~IsB64Char(data[i]))
     THEN Thrown
     ELSE Ok(AtobChars(data))

(***************************************************************************)
(* JSON.parse, for the texts JSON.stringify produces from the values above *)
(* (objects of strings, natural numbers, booleans, null and flat arrays).  *)
(* A parser result is [ok, v, next]: next is the position after the value. *)
(* The object returned is projected on Keys: members with other names, and *)
(* the index keys of a top-level string or array, are not represented.     *)
(***************************************************************************)
Parsed(v, next) == [ok |-> TRUE, v |-> v, next |-> next]
SyntaxError == [ok |-> FALSE, v |-> Absent, next |-> 0]

RECURSIVE SkipWs(_, _)
SkipWs(cs, i) ==
  IF i <= Len(cs) /\ cs[i] \in {9, 10, 13, 32} THEN SkipWs(cs, i + 1) ELSE i

CharAt(cs, i) == IF i >= 1 /\ i <= Len(cs) THEN cs[i] ELSE -1

MatchAt(cs, i, lit) ==
  i + Len(lit) - 1 <= Len(cs) /\ SubSeq(cs, i, i + Len(lit) - 1) = lit

RECURSIVE ParseDigits(_, _, _)
ParseDigits(cs, i, acc) ==
  IF IsDigit(CharAt(cs, i)) THEN ParseDigits(cs, i + 1, acc * 10 + (cs[i] - 48))
  ELSE [n |-> acc, next |-> i]

\* a natural number: no leading zero; fractions and exponents are outside the
\* modelled values
ParseNumber(cs, i) ==
  LET r == ParseDigits(cs, i, 0)
  IN IF (cs[i] = 48 /\ r.next > i + 1) \/ CharAt(cs, r.next) \in {46, 69, 101}
     THEN SyntaxError
     ELSE Parsed(Num(r.n), r.next)

\* i is the position after the opening quote; only \" and \\ are unescaped
RECURSIVE ParseStringBody(_, _, _)
ParseStringBody(cs, i, acc) ==
  LET c == CharAt(cs, i)
  IN IF c < 32 THEN SyntaxError
     ELSE IF c = 34 THEN Parsed(Str(acc), i + 1)
     ELSE IF c = 92
       THEN IF CharAt(cs, i + 1) \in {34, 92}
            THEN ParseStringBody(cs, i + 2, Append(acc, cs[i + 1]))
            ELSE SyntaxError
     ELSE ParseStringBody(cs, i + 1, Append(acc, c))

\* one element of an array at position j: a string or a number
ParseElement(cs, j) ==
  IF CharAt(cs, j) = 34 THEN ParseStringBody(cs, j + 1, <<>>)
  ELSE IF IsDigit(CharAt(cs, j)) THEN ParseNumber(cs, j)
  ELSE SyntaxError

ElementKind(e) == IF e.v.t = "string" THEN "strarray" ELSE "array"

RECURSIVE ParseElements(_, _, _, _)
\* after an element, at position k: a comma and more elements, or the end
ElementsRest(cs, k, acc, kind) ==
  IF CharAt(cs, k) = 44 THEN ParseElements(cs, k + 1, acc, kind)
  ELSE IF CharAt(cs, k) = 93 THEN Parsed([t |-> kind, s |-> acc], k + 1)
  ELSE SyntaxError

\* the parsed element e joins the elements acc before it
ElementsNext(cs, acc, kind, e) ==
  IF ~e.ok \/ (kind # "none" /\ kind # ElementKind(e))
     \/ (\E n \in 1..Len(e.v.s) : e.v.s[n] = 0)
  THEN SyntaxError
  ELSE ElementsRest(cs, SkipWs(cs, e.next),
                    IF ElementKind(e) = "strarray" THEN acc \o e.v.s \o <<0>>
                    ELSE acc \o e.v.s,
                    ElementKind(e))

\* the elements of an array after position i: all numbers, or all strings
\* (arrays mixing the two are outside the modelled values)
ParseElements(cs, i, acc, kind) == ElementsNext(cs, acc, kind, ParseElement(cs, SkipWs(cs, i)))

ParseValue(cs, i) ==
  LET j == SkipWs(cs, i)
      c == CharAt(cs, j)
  IN IF c = 34 THEN ParseStringBody(cs, j + 1, <<>>)
     ELSE IF IsDigit(c) THEN ParseNumber(cs, j)
     ELSE IF MatchAt(cs, j, <<116, 114, 117, 101>>) THEN Parsed(Bool(TRUE), j + 4)
     ELSE IF MatchAt(cs, j, <<102, 97, 108, 115, 101>>) THEN Parsed(Bool(FALSE), j + 5)
     ELSE IF MatchAt(cs, j, <<110, 117, 108, 108>>) THEN Parsed(Null, j + 4)
     ELSE IF c = 91
       THEN IF CharAt(cs, SkipWs(cs, j + 1)) = 93
            THEN Parsed(Arr(<<>>), SkipWs(cs, j + 1) + 1)
            ELSE ParseElements(cs, j + 1, <<>>, "none")
     ELSE SyntaxError

\* the key of Keys with this name, or "" when it is none of them
KeyNamed(cs) == IF \E k \in Keys : KeyText(k) = cs
                THEN CHOOSE k \in Keys : KeyText(k) = cs
                ELSE ""

\* the name of a member at position j
ParseName(cs, j) ==
  IF CharAt(cs, j) = 34 THEN ParseStringBody(cs, j + 1, <<>>) ELSE SyntaxError

RECURSIVE ParseMembers(_, _, _)
\* after a member, at position k: a comma and more members, or the end
MembersRest(cs, k, obj) ==
  IF CharAt(cs, k) = 44 THEN ParseMembers(cs, k + 1, obj)
  ELSE IF CharAt(cs, k) = 125 THEN Parsed(obj, k + 1)
  ELSE SyntaxError

\* the parsed value of the member named key joins the object; a repeated name
\* overwrites
MembersValue(cs, obj, key, val) ==
  IF ~val.ok THEN SyntaxError
  ELSE MembersRest(cs, SkipWs(cs, val.next),
                   IF key = "" THEN obj ELSE [obj EXCEPT ![key] = val.v])

\* after the name of a member: a colon and its value
MembersName(cs, obj, name) ==
  IF name.ok /\ CharAt(cs, SkipWs(cs, name.next)) = 58
  THEN MembersValue(cs, obj, KeyNamed(name.v.s), ParseValue(cs, SkipWs(cs, name.next) + 1))
  ELSE SyntaxError

\* the members of an object from position i on
ParseMembers(cs, i, obj) == MembersName(cs, obj, ParseName(cs, SkipWs(cs, i)))

\* a top-level value that is no object has none of the keys
AsEmptyObject(p) == IF p.ok THEN Parsed(EmptyObject, p.next) ELSE SyntaxError

\* the top-level value, at position j
ParseTop(cs, j) ==
  IF CharAt(cs, j) = 123
  THEN IF CharAt(cs, SkipWs(cs, j + 1)) = 125
       THEN Parsed(EmptyObject, SkipWs(cs, j + 1) + 1)
       ELSE ParseMembers(cs, j + 1, EmptyObject)
  ELSE AsEmptyObject(ParseValue(cs, j))

\* nothing but white space may follow the top-level value r
ParseEnd(cs, r) == IF r.ok /\ SkipWs(cs, r.next) > Len(cs) THEN Ok(r.v) ELSE Thrown

\* JSON.parse: Ok(object) or Thrown (SyntaxError)
JSONParse(cs) == ParseEnd(cs, ParseTop(cs, SkipWs(cs, 1)))

(***************************************************************************)
(* qs.stringify(obj, { encode: false }) and qs.parse(text), with the        *)
(* library's defaults: arrays are written with indices (a[0]=1&a[1]=2),     *)
(* undefined and empty arrays are skipped, null is written as the empty    *)
(* string; parse yields strings and arrays of strings only.                 *)
(***************************************************************************)
QsScalar(v) ==
  CASE v.t = "number" -> Digits(v.s[1])
    [] v.t = "string" -> v.s
    [] v.t = "boolean" -> IF v.s[1] = 1 THEN <<116, 114, 117, 101>>
                          ELSE <<102, 97, 108, 115, 101>>
    [] v.t = "null" -> <<>>
    [] v.t = "nan" -> <<78, 97, 78>>

\* the key=value pairs one key contributes
QsPairs(k, v) ==
  CASE v.t \in {"absent", "undefined"} -> <<>>
    [] v.t = "array" ->
         [i \in 1..Len(v.s) |-> KeyText(k) \o <<91>> \o Digits(i - 1) \o <<93, 61>>
                                \o Digits(v.s[i])]
    [] v.t = "strarray" ->
         [i \in 1..Len(Elements(v)) |-> KeyText(k) \o <<91>> \o Digits(i - 1) \o <<93, 61>>
                                        \o Elements(v)[i]]
    [] OTHER -> << KeyText(k) \o <<61>> \o QsScalar(v) >>

QsStringify(o) ==
  Join(Concat([i \in 1..Len(KeyOrder) |-> QsPairs(KeyOrder[i], o[KeyOrder[i]])]), <<38>>)

PlusToSpace(cs) == [i \in 1..Len(cs) |-> IF cs[i] = 43 THEN 32 ELSE cs[i]]

\* qs utils.decode: + is a space; text decodeURIComponent rejects is kept as is
QsDecode(cs) ==
  LET t == PlusToSpace(cs)
      d == decodeURIComponent(t)
  IN IF d.ok THEN d.v ELSE t

\* the position of the = that ends the key of a pair: the one after the first ]=
\* when there is one, else the first =; 0 when the pair has none
QsEqualsPos(part) ==
  LET b == CHOOSE p \in 0..Len(part) :
             /\ (p # 0 => p < Len(part) /\ part[p] = 93 /\ part[p + 1] = 61)
             /\ \A q \in 1..(Len(part) - 1) :
                  (part[q] = 93 /\ part[q + 1] = 61) => (p # 0 /\ p <= q)
  IN IF b # 0 THEN b + 1 ELSE IndexOf(part, 61, 1)

\* a key a, a[] or a[<digits>]: [name, isElement]; deeper keys (a[b], a[0][1])
\* build nested objects, which are outside the modelled values: name is empty
QsKey(cs) ==
  LET open == IndexOf(cs, 91, 1)
      inner == SubSeq(cs, open + 1, Len(cs) - 1)
  IN IF open = 0 THEN [name |-> cs, isElement |-> FALSE]
     ELSE IF open > 1 /\ cs[Len(cs)] = 93 /\ \A i \in 1..Len(inner) : IsDigit(inner[i])
       THEN [name |-> SubSeq(cs, 1, open - 1), isElement |-> TRUE]
     ELSE [name |-> <<>>, isElement |-> FALSE]

\* adds one decoded pair to the object: a repeated key, or an element key,
\* makes an array of strings (elements in the order of the text)
QsAdd(obj, part) ==
  LET pos == QsEqualsPos(part)
      key == QsKey(QsDecode(IF pos = 0 THEN part ELSE SubSeq(part, 1, pos - 1)))
      val == IF pos = 0 THEN <<>> ELSE QsDecode(SubSeq(part, pos + 1, Len(part)))
      k == KeyNamed(key.name)
  IN IF k = "" THEN obj
     ELSE IF obj[k].t = "strarray" THEN [obj EXCEPT ![k] = StrArr(Elements(obj[k]) \o <<val>>)]
     ELSE IF obj[k].t = "string" THEN [obj EXCEPT ![k] = StrArr(<<obj[k].s, val>>)]
     ELSE IF key.isElement THEN [obj EXCEPT ![k] = StrArr(<<val>>)]
     ELSE [obj EXCEPT ![k] = Str(val)]

RECURSIVE QsAddAll(_, _)
QsAddAll(obj, parts) ==
  IF parts = <<>> THEN obj ELSE QsAddAll(QsAdd(obj, Head(parts)), Tail(parts))

QsParse(cs) == IF cs = <<>> THEN EmptyObject ELSE QsAddAll(EmptyObject, Split(cs, 38))

(***************************************************************************)
(* The codec of useSearch.                                                  *)
(***************************************************************************)
\* the object with the keys of o that pass the filter (_query)
UsefulPart(o) == [k \in Keys |-> IF HasKey(o, k) /\ isUsefulValue(o[k]) THEN o[k] ELSE Absent]

\* an encoder that hands the JSON text to btoa without escaping it
encodeQueryData_noEscape(queryData, format) ==
  IF queryData # NoObject /\ OwnKeys(UsefulPart(queryData)) # {}
  THEN IF format = "base64"
       THEN btoa(JSONStringify(UsefulPart(queryData))).v
       ELSE QsStringify(queryData)
  ELSE <<>>

encodeQueryData(queryData, format) ==
  IF queryData # NoObject /\ OwnKeys(UsefulPart(queryData)) # {}
  THEN IF format = "base64"
       THEN btoa(encodeURIComponent(JSONStringify(UsefulPart(queryData)))).v
       ELSE QsStringify(queryData)
  ELSE <<>>

\* a text that may be null (a parameter or an entry that does not exist)
NullText == [present |-> FALSE, text |-> <<>>]
Text(cs) == [present |-> TRUE, text |-> cs]

\* a call on the value of the call before it: Thrown when that one threw
ThenAtob(r) == IF r.ok THEN atob(r.v) ELSE Thrown
ThenDecodeURIComponent(r) == IF r.ok THEN decodeURIComponent(r.v) ELSE Thrown
ThenJSONParse(r) == IF r.ok THEN JSONParse(r.v) ELSE Thrown

\* qs.parse does not throw
ThenQsParse(r) == IF r.ok THEN Ok(QsParse(r.v)) ELSE Thrown

\* try { return r } catch { return d }
OrElse(r, d) == IF r.ok THEN r ELSE d

\* JSON.parse(decodeURIComponent(atob(decodeURIComponent(data)))): Thrown when
\* any of the four calls throws
DecodeBase64(cs) ==
  ThenJSONParse(ThenDecodeURIComponent(ThenAtob(decodeURIComponent(cs))))

\* Ok(object), or Thrown when the query-string branch throws (a URIError of
\* decodeURIComponent, which that branch does not catch)
decodeQueryData(data, format) ==
  IF data.present /\ data.text # <<>>
  THEN IF format = "base64"
       THEN OrElse(DecodeBase64(data.text), Ok(EmptyObject))
       ELSE ThenQsParse(decodeURIComponent(data.text))
  ELSE Ok(EmptyObject)

(***************************************************************************)
(* The storage adapters.  The link is represented by the raw text of its   *)
(* _q parameter inside the query string (NullText when the link has none); *)
(* the session store by its one entry for this page and cache key.          *)
(***************************************************************************)
\* URLSearchParams serialisation (application/x-www-form-urlencoded)
FormUrlEncode(cs) ==
  Concat([i \in 1..Len(cs) |-> IF IsAlnum(cs[i]) \/ cs[i] \in {42, 45, 46, 95} THEN <<cs[i]>>
                                ELSE IF cs[i] = 32 THEN <<43>>
                                ELSE PercentEncode(cs[i])])

\* URLSearchParams parsing of a value: + is a space, a valid %XX is its byte,
\* anything else stands for itself; then the bytes are read as UTF-8, a byte
\* outside a well-formed sequence becoming U+FFFD
FormUrlUnits(cs) ==
  Concat([i \in 1..Len(cs) |->
            IF EscapeAt(cs, i) >= 0 THEN << <<1, EscapeAt(cs, i)>> >>
            ELSE IF (i > 1 /\ EscapeAt(cs, i - 1) >= 0) \/ (i > 2 /\ EscapeAt(cs, i - 2) >= 0)
              THEN <<>>
            ELSE IF cs[i] = 43 THEN << <<0, 32>> >>
            ELSE << <<0, cs[i]>> >>])

FormUrlDecode(cs) ==
  LET us == FormUrlUnits(cs)
  IN Concat([j \in 1..Len(us) |->
               IF us[j][1] = 0 \/ us[j][2] < 128 \/ StartsSeq2(us, j) \/ StartsSeq3(us, j)
               THEN UnitChars(us, j)
               ELSE IF ContinuesSeq(us, j) THEN <<>>
               ELSE <<65533>>])

\* url.searchParams.get(SEARCH_QUERY_KEY)
SearchParamsGet(link) == IF link.present THEN Text(FormUrlDecode(link.text)) ELSE NullText

\* the _q parameter of the link generateNewUrl(data) builds from the current
\* link: an existing non-empty parameter is deleted, then a non-empty data is
\* set, percent-encoded
generateNewUrl(link, data) ==
  LET afterDelete == IF SearchParamsGet(link).present /\ SearchParamsGet(link).text # <<>>
                     THEN NullText ELSE link
  IN IF data # <<>> THEN Text(FormUrlEncode(encodeURIComponent(data))) ELSE afterDelete

\* Router.replace(generateNewUrl(data)): the link is replaced in place
setToUrl(link, data) == generateNewUrl(link, data)

getFromUrl(link, format) == decodeQueryData(SearchParamsGet(link), format)

\* sessionStorage.setItem(key, data)
setCache(data) == Text(data)

\* sessionStorage.getItem(key), decoded
getFromCache(entry, format) == decodeQueryData(entry, format)

(***************************************************************************)
(* useSearch: the search state engine.                                      *)
(***************************************************************************)
\* bounds of the model
MaxTriggers == 2
MaxRenders == 1

\* a pagination object { page, pageSize }
PageQuery(p, sz) == [EmptyObject EXCEPT !["page"] = Num(p), !["pageSize"] = Num(sz)]

\* new PageQuery(): the defaults of the class
NewPageQuery == PageQuery(1, 10)

\* o has the own key k (o may be undefined)
Has(o, k) == o # NoObject /\ HasKey(o, k)

\* sample query payloads
PayloadX == [EmptyObject EXCEPT !["a"] = Str(<<120>>)]
PayloadY == [EmptyObject EXCEPT !["a"] = Num(2), !["b"] = Str(<<>>), !["page"] = Num(7)]
PayloadInitial == [EmptyObject EXCEPT !["b"] = Num(1), !["page"] = Num(4)]
PayloadCached == [EmptyObject EXCEPT !["a"] = Str(<<99>>), !["b"] = Str(<<99>>)]
PayloadLinked == [EmptyObject EXCEPT !["a"] = Str(<<108>>)]
StaticPayload == [EmptyObject EXCEPT !["a"] = Str(<<115>>), !["page"] = Num(9)]

\* payloads for the codec: strings with characters that need escaping (a
\* quote, a percent sign, a space, Latin-1 and CJK characters), numbers,
\* booleans, arrays, and the values the filter drops
CodecPayloads ==
  { EmptyObject,
    [EmptyObject EXCEPT !["a"] = Str(<<120>>)],
    [EmptyObject EXCEPT !["a"] = Num(12), !["b"] = Bool(TRUE)],
    [EmptyObject EXCEPT !["a"] = Arr(<<1, 2>>), !["b"] = Str(<<228, 20013, 34, 37, 32, 43>>)],
    [EmptyObject EXCEPT !["a"] = Null, !["b"] = Num(0)],
    [EmptyObject EXCEPT !["a"] = Undefined, !["b"] = Arr(<<>>), !["page"] = Str(<<>>)],
    [EmptyObject EXCEPT !["a"] = StrArr(<< <<97, 98>>, <<47>> >>), !["page"] = Bool(FALSE)],
    [EmptyObject EXCEPT !["a"] = NaN, !["b"] = Str(<<120>>)] }

\* the arguments a caller passes to the trigger function
SearchDataArgs == {NoObject, PayloadX, PayloadY}
PaginationArgs == {NoObject, PageQuery(3, 10), PageQuery(2, 20), PageQuery(3, 20)}

\* what a fetch can settle with
ResultPages == {5}
Errors == {"refused"}

SyncModes == {"off", "url", "copy"}
CacheModes == {"off", "default"}
Formats == {"base64", "query"}

VARIABLES
  options,        \* the SearchOptions of the first render
  loading,        \* useState: loading
  pageData,       \* useState: pageData
  searchData,     \* searchDataRef.current
  pagination,     \* paginationRef.current
  storage,        \* storageRef.current
  link,           \* the _q parameter of document.location
  cacheEntry,     \* the sessionStorage entry of this page and cache key
  requests,       \* per trigger call, the state of its fetch: none, pending, settled
  call,           \* the latest trigger call: its arguments and the fetch argument
  settled,        \* the latest settlement of a fetch and of the promise trigger returned
  mounted,        \* the mount effect has run
  renders,        \* re-evaluations of the component after the first
  engineTriggers, \* trigger calls made by the engine itself
  table           \* the table side: the pagination control, the columns, a cell

vars == <<options, loading, pageData, searchData, pagination, storage, link,
          cacheEntry, requests, call, settled, mounted, renders, engineTriggers,
          table>>

SyncOn(o) == o.sync # "off"
CacheOn(o) == o.cache # "off"

\* a merge in which the cache data overrides the sync data
InitialSearchData_cacheOverLink(o, entry, lnk) ==
  Spread(Spread(Spread(EmptyObject, o.initialSearchData),
                IF SyncOn(o) THEN getFromUrl(lnk, o.storageFormat).v ELSE EmptyObject),
         IF CacheOn(o) THEN getFromCache(entry, o.storageFormat).v ELSE EmptyObject)

\* _initialSearchData: sync data over cache data over initialSearchData
InitialSearchData(o, entry, lnk) ==
  Spread(Spread(Spread(EmptyObject, o.initialSearchData),
                IF CacheOn(o) THEN getFromCache(entry, o.storageFormat).v ELSE EmptyObject),
         IF SyncOn(o) THEN getFromUrl(lnk, o.storageFormat).v ELSE EmptyObject)

\* the first render throws when a store cannot be decoded
FirstRenderThrows(o, entry, lnk) ==
  \/ CacheOn(o) /\ ~getFromCache(entry, o.storageFormat).ok
  \/ SyncOn(o) /\ ~getFromUrl(lnk, o.storageFormat).ok

NoCall == [id |-> 0, searchData |-> NoObject, pagination |-> NoObject,
           args |-> EmptyObject, loadingAtFetch |-> FALSE, byEngine |-> FALSE]
NoSettlement == [id |-> 0, atCall |-> 0, fetch |-> "none", fetchReason |-> "none",
                 state |-> "none", reason |-> "none"]
InitialPageData == [req |-> 0, page |-> 0]

\* the options an engine is created with
OptionsOf(initRequest, sync, cache, format, static, initial, initialPagination) ==
  [initRequest |-> initRequest, sync |-> sync, cache |-> cache,
   storageFormat |-> format, staticSearchData |-> static,
   initialSearchData |-> initial, initialPagination |-> initialPagination]

\* no cell rendered yet
NoCell == [column |-> 0, value |-> Undefined, index |-> 0, outcome |-> Ok(Undefined)]

\* the table side before the table is used: no pagination change reported, no
\* arguments of useColumns, no columns resolved, no cell rendered
NoTable ==
  [changes |-> 0, change |-> [page |-> 0, size |-> 0],
   Clz |-> <<>>, additional |-> <<>>, extend |-> NoObject, group |-> Undefined,
   mount |-> NoObject, withIndex |-> FALSE,
   resolved |-> FALSE, columns |-> <<>>, cell |-> NoCell]

\* the state after the first render of a component that uses the hook, and
\* the table hook with it
FirstRenderWithTable(o, entry, lnk, tbl) ==
  /\ ~FirstRenderThrows(o, entry, lnk)
  /\ options = o
  /\ link = lnk
  /\ cacheEntry = entry
  /\ loading = o.initRequest
  /\ pageData = InitialPageData
  /\ searchData = InitialSearchData(o, entry, lnk)
  /\ pagination = (IF o.initialPagination # NoObject THEN o.initialPagination
                   ELSE NewPageQuery)
  /\ storage = <<>>
  /\ requests = [i \in 1..(MaxTriggers + MaxRenders) |-> "none"]
  /\ call = NoCall
  /\ settled = NoSettlement
  /\ mounted = FALSE
  /\ renders = 0
  /\ engineTriggers = 0
  /\ table = tbl

\* the state after the first render of a component that uses the hook
FirstRender(o, entry, lnk) == FirstRenderWithTable(o, entry, lnk, NoTable)

\* engines over every mode of persistence, with and without a static payload
\* and a request on mount; the storage format is varied for the engines with
\* persistence, the initial pagination for those without
EngineOptions ==
  { o \in { OptionsOf(ir, sy, ca, fmt, st, PayloadInitial, ip) :
              ir \in BOOLEAN, sy \in SyncModes, ca \in CacheModes, fmt \in Formats,
              st \in {NoObject, StaticPayload}, ip \in {NoObject, PageQuery(2, 20)} } :
      /\ (o.sync = "off" /\ o.cache = "off") => o.storageFormat = "base64"
      /\ o.initialPagination # NoObject => (o.sync = "off" /\ o.cache = "off") }

Init == \E o \in EngineOptions : FirstRender(o, NullText, NullText)

\* what the stores can hold when the component is created: nothing, the state
\* an earlier engine wrote, or a text that is no encoded state
CacheEntries(format) == {NullText, setCache(encodeQueryData(PayloadCached, format)), Text(<<33>>)}
Links(format) == {NullText, setToUrl(NullText, encodeQueryData(PayloadLinked, format)), Text(<<33>>)}

\* engines created over stores that already hold something
StoreInit ==
  \E sy \in SyncModes, ca \in CacheModes, fmt \in Formats :
    \E entry \in CacheEntries(fmt), lnk \in Links(fmt) :
      FirstRender(OptionsOf(TRUE, sy, ca, fmt, StaticPayload, PayloadInitial, NoObject),
                  entry, lnk)

\* engines whose first query payload is one of the codec payloads
CodecInit ==
  \E p \in CodecPayloads :
    FirstRender(OptionsOf(TRUE, "url", "default", "base64", NoObject, p, NoObject),
                NullText, NullText)

(***************************************************************************)
(* searchRef.current(searchData, pagination)                                *)
(***************************************************************************)
\* a trigger function that leaves the flag alone
LoadingOnTrigger_keep(l) == l

\* setLoading(true), the first statement
LoadingOnTrigger(l) == TRUE

\* a pagination update that keeps the page held before when the size is the same
PaginationAfterArg_held(cur, pg) ==
  IF pg # NoObject
  THEN [cur EXCEPT !["page"] = IF cur["pageSize"] = pg["pageSize"] THEN cur["page"] ELSE Num(1),
                   !["pageSize"] = pg["pageSize"]]
  ELSE cur

\* a pagination update that takes the page of the argument whatever the size
PaginationAfterArg_noReset(cur, pg) ==
  IF pg # NoObject
  THEN [cur EXCEPT !["page"] = pg["page"], !["pageSize"] = pg["pageSize"]]
  ELSE cur

\* paginationRef.current after the pagination argument
PaginationAfterArg(cur, pg) ==
  IF pg # NoObject
  THEN [cur EXCEPT !["page"] = IF cur["pageSize"] = pg["pageSize"] THEN pg["page"] ELSE Num(1),
                   !["pageSize"] = pg["pageSize"]]
  ELSE cur

\* a searchData argument that leaves the page alone
PaginationAfterSearch_keep(cur, sd) == cur

\* paginationRef.current after the searchData argument
PaginationAfterSearch(cur, sd) ==
  IF sd # NoObject THEN [cur EXCEPT !["page"] = Num(1)] ELSE cur

\* an assignment of the searchData argument whatever it is
SearchDataAfter_always(cur, sd) == sd

\* searchDataRef.current after the searchData argument
SearchDataAfter(cur, sd) == IF sd # NoObject THEN sd ELSE cur

\* a fetch argument in which the static payload is overridden
FetchArgs_staticFirst(sd, pg, static) == Spread(Spread(Spread(EmptyObject, static), sd), pg)

\* the argument of query.current
FetchArgs(sd, pg, static) == Spread(Spread(Spread(EmptyObject, sd), pg), static)

NextId == CHOOSE i \in DOMAIN requests :
            requests[i] = "none" /\ \A j \in 1..(i - 1) : requests[j] # "none"

Search(sd, pg, byEngine) ==
  LET pg2 == PaginationAfterSearch(PaginationAfterArg(pagination, pg), sd)
      sd2 == SearchDataAfter(searchData, sd)
  IN /\ loading' = LoadingOnTrigger(loading)
     /\ pagination' = pg2
     /\ searchData' = sd2
     /\ requests' = [requests EXCEPT ![NextId] = "pending"]
     /\ call' = [id |-> NextId, searchData |-> sd, pagination |-> pg,
                 args |-> FetchArgs(sd2, pg2, options.staticSearchData),
                 loadingAtFetch |-> loading', byEngine |-> byEngine]
     /\ engineTriggers' = IF byEngine THEN engineTriggers + 1 ELSE engineTriggers
     /\ UNCHANGED <<options, pageData, storage, link, cacheEntry, settled>>

Started == Cardinality({i \in DOMAIN requests : requests[i] # "none"})

\* the caller invokes the trigger function the hook returned (from an event
\* handler, after mount)
Trigger ==
  /\ mounted
  /\ Started < MaxTriggers
  /\ \E sd \in SearchDataArgs, pg \in PaginationArgs : Search(sd, pg, FALSE)
  /\ UNCHANGED <<mounted, renders, table>>

\* an effect without a dependency list: it runs after every render
EffectRuns_always(firstRender) == TRUE

\* useEffect(f, []): f runs after the first render only
EffectRuns(firstRender) == firstRender

\* the effect: if (requestOnDidMount.current) await searchRef.current()
Effect(firstRender) ==
  IF EffectRuns(firstRender) /\ options.initRequest
  THEN Search(NoObject, NoObject, TRUE)
  ELSE UNCHANGED <<options, loading, pageData, searchData, pagination, storage, link,
                   cacheEntry, requests, call, settled, engineTriggers>>

\* the effects of the first render
Mount ==
  /\ ~mounted
  /\ mounted' = TRUE
  /\ Effect(TRUE)
  /\ UNCHANGED <<renders, table>>

\* a later render: the refs keep the values and the functions of the first
\* render, the effect has no dependencies
Rerender ==
  /\ mounted
  /\ renders < MaxRenders
  /\ renders' = renders + 1
  /\ Effect(FALSE)
  /\ UNCHANGED <<mounted, table>>

(***************************************************************************)
(* Settlement of a fetch: .then(setPageData).finally(storageFunc;           *)
(* setLoading(false)).                                                      *)
(***************************************************************************)
\* persisting the searchData argument of the call instead of the ref
PersistedPayload_argument(current, arg) == arg

\* the payload storageFunc is given in the finally callback
PersistedPayload(current, arg) == current

\* a persistence step that writes the link in copy mode too
storageFunc_linkOnCopy(formData, o, st, lnk, entry) ==
  [storage |-> IF SyncOn(o) \/ CacheOn(o) THEN encodeQueryData(formData, o.storageFormat) ELSE st,
   link |-> IF SyncOn(o) THEN setToUrl(lnk, encodeQueryData(formData, o.storageFormat)) ELSE lnk,
   cacheEntry |-> IF CacheOn(o) THEN setCache(encodeQueryData(formData, o.storageFormat))
                  ELSE entry]

\* storageFunc(formData): [storage, link, cacheEntry] after it
storageFunc(formData, o, st, lnk, entry) ==
  LET st2 == IF SyncOn(o) \/ CacheOn(o) THEN encodeQueryData(formData, o.storageFormat) ELSE st
  IN [storage |-> st2,
      link |-> IF o.sync = "url" THEN setToUrl(lnk, st2) ELSE lnk,
      cacheEntry |-> IF CacheOn(o) THEN setCache(st2) ELSE entry]

\* a .then callback that applies the result of the latest call only
PageDataAfter_fenced(cur, outcome) ==
  IF outcome.state = "fulfilled" /\ outcome.value.req = call.id THEN outcome.value ELSE cur

\* the page data after .then(result => setPageData(result))
PageDataAfter(cur, outcome) == IF outcome.state = "fulfilled" THEN outcome.value ELSE cur

\* a chain that catches the rejection
ChainOutcome_swallow(outcome) == [state |-> "fulfilled", reason |-> "none"]

\* the promise .then(f).finally(g) of a fetch promise that settled with outcome:
\* f returns undefined, g passes the outcome through
ChainOutcome(outcome) ==
  IF outcome.state = "fulfilled" THEN [state |-> "fulfilled", reason |-> "none"]
  ELSE [state |-> "rejected", reason |-> outcome.reason]

\* a finally callback that leaves the flag alone
LoadingOnSettle_keep(l) == l

\* setLoading(false), the last statement of the finally callback
LoadingOnSettle(l) == FALSE

Settle(id, outcome) ==
  LET st == storageFunc(PersistedPayload(searchData, call.searchData), options, storage,
                        link, cacheEntry)
  IN /\ requests[id] = "pending"
     /\ pageData' = PageDataAfter(pageData, outcome)
     /\ storage' = st.storage
     /\ link' = st.link
     /\ cacheEntry' = st.cacheEntry
     /\ loading' = LoadingOnSettle(loading)
     /\ requests' = [requests EXCEPT ![id] = "settled"]
     /\ settled' = [id |-> id, atCall |-> call.id,
                    fetch |-> outcome.state, fetchReason |-> outcome.reason,
                    state |-> ChainOutcome(outcome).state,
                    reason |-> ChainOutcome(outcome).reason]
     /\ UNCHANGED <<options, searchData, pagination, call, mounted, renders, engineTriggers,
                    table>>

\* a fetch resolves with a page result
Resolve ==
  \E id \in DOMAIN requests, p \in ResultPages :
    Settle(id, [state |-> "fulfilled", value |-> [req |-> id, page |-> p], reason |-> "none"])

\* a fetch rejects with an error
Reject ==
  \E id \in DOMAIN requests, e \in Errors :
    Settle(id, [state |-> "rejected", value |-> InitialPageData, reason |-> e])

Next == Mount \/ Rerender \/ Trigger \/ Resolve \/ Reject

(***************************************************************************)
(* useTable: the pagination control of the table                            *)
(***************************************************************************)
\* the pages and sizes the pagination control reports
ControlPages == {1, 3}
ControlSizes == {10, 20}

\* a handler that hands the size over as the page and the page as the size
onChangeArgs_swapped(page, size) == [searchData |-> NoObject, pagination |-> PageQuery(size, page)]

\* onChange: (page, size) => search(null, { page, pageSize: size }): the
\* arguments of the trigger call
onChangeArgs(page, size) == [searchData |-> NoObject, pagination |-> PageQuery(page, size)]

\* the pagination control reports a change of page or of size
PaginationChange ==
  /\ mounted
  /\ Started < MaxTriggers
  /\ \E page \in ControlPages, size \in ControlSizes :
       /\ Search(onChangeArgs(page, size).searchData, onChangeArgs(page, size).pagination, FALSE)
       /\ table' = [table EXCEPT !.changes = @ + 1, !.change = [page |-> page, size |-> size]]
  /\ UNCHANGED <<mounted, renders>>

TableNext == Mount \/ Rerender \/ Trigger \/ PaginationChange \/ Resolve \/ Reject

(***************************************************************************)
(* useTable: the values of a cell.                                          *)
(***************************************************************************)
\* a number with two decimals, n + h / 100
Dec(n, h) == [t |-> "number", s |-> <<n, h>>]

\* <Tooltip placement="topLeft" title={title}>{child}</Tooltip>
Tooltip(title, child) == [t |-> "tooltip", s |-> <<>>, title |-> title, child |-> child]

\* a ?? b
Coalesce(a, b) == IF a \in {Undefined, Null, Absent} THEN b ELSE a

\* isEmpty of the toolkit: the value is not a useful value
isEmpty(v) == ~isUsefulValue(v)

\* the digits of n, at least two of them
TwoDigits(n) == IF n < 10 THEN <<48>> \o Digits(n) ELSE Digits(n)

\* String(v) for a number: the decimals without trailing zeros
NumberText(v) ==
  IF Len(v.s) = 1 \/ v.s[2] = 0 THEN Digits(v.s[1])
  ELSE Digits(v.s[1]) \o <<46>> \o
       (IF v.s[2] % 10 = 0 THEN Digits(v.s[2] \div 10) ELSE TwoDigits(v.s[2]))

\* String(v)
ToText(v) ==
  CASE v.t = "string" -> v.s
    [] v.t = "number" -> NumberText(v)
    [] v.t = "nan" -> <<78, 97, 78>>                                     \* NaN
    [] v.t = "undefined" -> <<117, 110, 100, 101, 102, 105, 110, 101, 100>>
    [] v.t = "null" -> <<110, 117, 108, 108>>
    [] v.t = "boolean" -> IF v.s = <<1>> THEN <<116, 114, 117, 101>>
                          ELSE <<102, 97, 108, 115, 101>>
    [] OTHER -> <<>>

\* the text of an element in Array.prototype.join: nothing for undefined and null
JoinText(v) == IF v \in {Undefined, Null} THEN <<>> ELSE ToText(v)

\* the length of the run of digits cs starts with
LeadingDigits(cs) ==
  IF \A i \in 1..Len(cs) : IsDigit(cs[i]) THEN Len(cs)
  ELSE (CHOOSE i \in 1..Len(cs) : ~IsDigit(cs[i]) /\ \A j \in 1..(i - 1) : IsDigit(cs[j])) - 1

\* the natural number the digits ds write
RECURSIVE DigitsValue(_)
DigitsValue(ds) ==
  IF ds = <<>> THEN 0 ELSE 10 * DigitsValue(SubSeq(ds, 1, Len(ds) - 1)) + (ds[Len(ds)] - 48)

\* Number.parseFloat(v): a number is itself, a text is the number its leading
\* digits write (the texts of the model have no sign, point or exponent after
\* them), anything else is NaN
parseFloat(v) ==
  CASE v.t = "number" -> v
    [] v.t = "string" /\ LeadingDigits(v.s) > 0 ->
         Num(DigitsValue(SubSeq(v.s, 1, LeadingDigits(v.s))))
    [] OTHER -> NaN

\* Number.parseInt(v, radix) for radix undefined or 10: the integer the
\* leading digits of String(v) write, or NaN
parseInt(v) ==
  IF LeadingDigits(ToText(v)) > 0
  THEN Num(DigitsValue(SubSeq(ToText(v), 1, LeadingDigits(ToText(v)))))
  ELSE NaN

\* 10 to the power d
RECURSIVE Pow10(_)
Pow10(d) == IF d = 0 THEN 1 ELSE 10 * Pow10(d - 1)

\* the d digits of f, zeros first
RECURSIVE Padded(_, _)
Padded(f, d) == IF d = 0 THEN <<>> ELSE Padded(f \div 10, d - 1) \o <<48 + (f % 10)>>

\* the hundredths of a number
Hundredths(v) == v.s[1] * 100 + (IF Len(v.s) = 2 THEN v.s[2] ELSE 0)

\* the truthiness of a value
Truthy(v) ==
  CASE v.t \in {"undefined", "null", "nan", "absent", "none"} -> FALSE
    [] v.t = "number" -> Hundredths(v) # 0
    [] v.t = "string" -> v.s # <<>>
    [] v.t = "boolean" -> v.s = <<1>>
    [] OTHER -> TRUE

\* the number of 10^-d in x hundredths, a tie rounded up
Rounded(x, d) ==
  IF d >= 2 THEN x * Pow10(d - 2)
  ELSE (x + (Pow10(2 - d) \div 2)) \div Pow10(2 - d)

\* Number.prototype.toFixed(digits): a RangeError outside 0..100
toFixed(v, digits) ==
  IF digits < 0 \/ digits > 100 THEN Thrown
  ELSE IF v = NaN THEN Ok(Str(<<78, 97, 78>>))
  ELSE Ok(Str(Digits(Rounded(Hundredths(v), digits) \div Pow10(digits)) \o
              (IF digits = 0 THEN <<>>
               ELSE <<46>> \o Padded(Rounded(Hundredths(v), digits) % Pow10(digits), digits))))

\* the digits ds with a comma before every group of three
Grouped(ds) ==
  Concat([i \in 1..Len(ds) |->
            IF i > 1 /\ (Len(ds) - i + 1) % 3 = 0 THEN <<44, ds[i]>> ELSE <<ds[i]>>])

\* renderPrice of the toolkit: two decimals and thousands separators; a value
\* that is no number is an error
renderPrice(v) ==
  IF parseFloat(v) = NaN THEN Thrown
  ELSE Ok(Str(Grouped(Digits(Hundredths(parseFloat(v)) \div 100)) \o <<46>> \o
              TwoDigits(Hundredths(parseFloat(v)) % 100)))

\* the patterns of the date formats
DatePattern == Str(<<89, 89, 89, 89, 45, 77, 77, 45, 68, 68>>)
DateTimePattern == Str(<<89, 89, 89, 89, 45, 77, 77, 45, 68, 68, 32, 72, 72, 58, 109, 109, 58, 115, 115>>)

\* a text YYYY-MM-DDTHH:mm:ss
IsIsoText(cs) ==
  /\ Len(cs) = 19
  /\ \A i \in 1..19 : CASE i \in {5, 8} -> cs[i] = 45
                        [] i = 11 -> cs[i] = 84
                        [] i \in {14, 17} -> cs[i] = 58
                        [] OTHER -> IsDigit(cs[i])

\* the instant of the epoch, as a text
EpochText == <<49, 57, 55, 48, 45, 48, 49, 45, 48, 49, 84, 48, 48, 58, 48, 48, 58, 48, 48>>

\* moment(v).format(pattern) for the two patterns above: the fields of an ISO
\* text, the first day of the epoch for a number of milliseconds below a day
\* (in UTC), "Invalid date" for a text that is no date
momentFormat(v, pattern) ==
  LET iso == IF v.t = "number" THEN EpochText ELSE v.s
  IN IF v.t = "number" \/ (v.t = "string" /\ IsIsoText(v.s))
     THEN IF pattern = DatePattern THEN Str(SubSeq(iso, 1, 10))
          ELSE Str(SubSeq(iso, 1, 10) \o <<32>> \o SubSeq(iso, 12, 19))
     ELSE Str(<<73, 110, 118, 97, 108, 105, 100, 32, 100, 97, 116, 101>>)

(***************************************************************************)
(* useTable: the format registry.                                           *)
(***************************************************************************)
\* the names of the registries and of the options
DateName == Str(<<100, 97, 116, 101>>)
DateTimeName == Str(<<100, 97, 116, 101, 116, 105, 109, 101>>)
NumberName == Str(<<110, 117, 109, 98, 101, 114>>)
IntName == Str(<<105, 110, 116>>)
MoneyName == Str(<<109, 111, 110, 101, 121>>)
ConstantName == Str(<<99, 111, 110, 115, 116, 97, 110, 116>>)
JoinName == Str(<<106, 111, 105, 110>>)
DefaultName == Str(<<100, 101, 102, 97, 117, 108, 116>>)
SplitName == Str(<<115, 112, 108, 105, 116>>)
StartName == Str(<<115, 116, 97, 114, 116>>)
EndName == Str(<<101, 110, 100>>)

\* the parameters of a format or of a truncation: an object over ParamKeys
ParamKeys == {"default", "pattern", "digits", "radix", "symbol", "origin", "with", "sep",
              "format", "by", "showIndex", "showTitle"}
EmptyParams == [k \in ParamKeys |-> Absent]

\* null where parameters are expected
NoParams == [k \in ParamKeys |-> [t |-> "none", s |-> <<>>]]

\* { ...a, ...b } for parameters; spreading null adds nothing
SpreadParams(a, b) ==
  [k \in ParamKeys |-> IF b # NoParams /\ b[k] # Absent THEN b[k]
                       ELSE IF a # NoParams THEN a[k] ELSE Absent]

\* o[k], undefined when o lacks k
Prop(o, k) == IF o[k] = Absent THEN Undefined ELSE o[k]

\* [name, params]
Pair(name, params) == [t |-> "pair", s |-> <<>>, name |-> name, params |-> params]

\* an enum of the domain: values with their names
StatusEnum == [t |-> "enum", s |-> <<>>,
               entries |-> << [value |-> Num(0), name |-> Str(<<79, 102, 102>>)],
                              [value |-> Num(1), name |-> Str(<<79, 110>>)] >>]

\* origin.valueOf(value).name: the lookup of an enum gives the entry of the
\* value, and nothing for a value the enum does not have
EnumName(origin, value) ==
  IF \E i \in DOMAIN origin.entries : origin.entries[i].value = value
  THEN Ok(origin.entries[CHOOSE i \in DOMAIN origin.entries : origin.entries[i].value = value].name)
  ELSE Thrown

DEFAULT_FORMAT_OPTIONS(name) ==
  CASE name = DateName -> [EmptyParams EXCEPT !["pattern"] = DatePattern]
    [] name = DateTimeName -> [EmptyParams EXCEPT !["pattern"] = DateTimePattern]
    [] name = NumberName -> [EmptyParams EXCEPT !["digits"] = Num(0)]
    [] name = IntName -> [EmptyParams EXCEPT !["radix"] = Num(10)]
    [] name = MoneyName -> [EmptyParams EXCEPT !["symbol"] = Str(<<>>)]
    [] name = ConstantName -> [EmptyParams EXCEPT !["origin"] = Null]
    [] name = JoinName -> [EmptyParams EXCEPT !["with"] = Str(<<>>), !["sep"] = Str(<<45>>),
                                              !["format"] = Undefined]

\* the result of a try block, and the value when the block threw
Caught(result, value) == IF result.ok THEN result ELSE Ok(value)

\* the renders of the factories date and datetime
DateRender(_opt, value) ==
  Ok(IF Truthy(value) THEN momentFormat(value, _opt["pattern"]) ELSE Prop(_opt, "default"))

\* the render of the factory number
NumberRender(_opt, value) ==
  IF isEmpty(value) THEN Ok(Prop(_opt, "default"))
  ELSE Caught(toFixed(parseFloat(value), _opt["digits"].s[1]), value)

\* the render of the factory int; its options are merged over those of number
IntRender(_opt, value) ==
  IF isEmpty(value) THEN Ok(Prop(_opt, "default")) ELSE Ok(parseInt(value))

\* the render of the factory money
MoneyRender(_opt, value) ==
  IF isEmpty(value) THEN Ok(Prop(_opt, "default")) ELSE Caught(renderPrice(value), value)

\* the render of the factory constant
ConstantRender(_opt, value) ==
  IF Truthy(_opt["origin"]) THEN EnumName(_opt["origin"], value) ELSE Ok(value)

\* the render DEFAULT_FORMAT_RENDER_FACTORY[name](opt) returns, applied to a
\* value, for every name but join
FormatRender(name, opt, value) ==
  CASE name \in {DateName, DateTimeName} ->
         DateRender(SpreadParams(DEFAULT_FORMAT_OPTIONS(name), opt), value)
    [] name = NumberName ->
         NumberRender(SpreadParams(DEFAULT_FORMAT_OPTIONS(NumberName), opt), value)
    [] name = IntName ->
         IntRender(SpreadParams(DEFAULT_FORMAT_OPTIONS(NumberName), opt), value)
    [] name = MoneyName ->
         MoneyRender(SpreadParams(DEFAULT_FORMAT_OPTIONS(MoneyName), opt), value)
    [] name = ConstantName ->
         ConstantRender(SpreadParams(DEFAULT_FORMAT_OPTIONS(ConstantName), opt), value)

\* the options formatGenerate hands to the factory: the parameters of a pair
\* over the default of the column, null for a bare name
FactoryOptions(info, default) ==
  IF info.t = "pair" /\ info.params # NoParams
  THEN SpreadParams([EmptyParams EXCEPT !["default"] = default], info.params)
  ELSE NoParams

\* the values the render of join joins: the value and record[key] ?? ""
JoinValues(_opt, value, record) ==
  <<value>> \o (IF Truthy(_opt["with"])
                THEN <<Coalesce(record[KeyNamed(_opt["with"].s)], Str(<<>>))>>
                ELSE <<>>)

\* an element of the join: as it is, or formatted by formatGenerate(format, opt)
JoinElement(_opt, el) ==
  IF ~Truthy(_opt["format"]) THEN Ok(el)
  ELSE FormatRender(_opt["format"], NoParams, el)

\* the render of the factory join
JoinRender(_opt, value, record) ==
  LET els == [i \in DOMAIN JoinValues(_opt, value, record) |->
                JoinElement(_opt, JoinValues(_opt, value, record)[i])]
  IN IF \E i \in DOMAIN els : ~els[i].ok THEN Thrown
     ELSE Ok(Str(Join([i \in DOMAIN els |-> JoinText(els[i].v)], _opt["sep"].s)))

(***************************************************************************)
(* useTable: render functions.  A render function is the record of what    *)
(* its closure holds: the registry entry that built it, the options the    *)
(* entry was given, and the render it wraps.                                *)
(***************************************************************************)
FormatFunction(name, opt) ==
  [t |-> "function", s |-> <<>>, kind |-> "format", name |-> name, opt |-> opt,
   prev |-> Undefined]
AmendFunction(default) ==
  [t |-> "function", s |-> <<>>, kind |-> "amend", name |-> Undefined,
   opt |-> [EmptyParams EXCEPT !["default"] = default], prev |-> Undefined]
EllipsisFunction(name, opt, prevRender) ==
  [t |-> "function", s |-> <<>>, kind |-> "ellipsis", name |-> name, opt |-> opt,
   prev |-> prevRender]
IndexFunction ==
  [t |-> "function", s |-> <<>>, kind |-> "index", name |-> Undefined, opt |-> NoParams,
   prev |-> Undefined]

\* a render function of the caller: it shows the text of its name
CallerFunction(name) ==
  [t |-> "function", s |-> <<>>, kind |-> "caller", name |-> name, opt |-> NoParams,
   prev |-> Undefined]

\* formatGenerate(info, options): the render of the format, undefined
\* without a format
formatGenerate(info, default) ==
  IF ~Truthy(info) THEN Undefined
  ELSE FormatFunction(IF info.t = "string" THEN info ELSE info.name,
                      FactoryOptions(info, default))

\* a render of a format or of the empty-value substitution, applied
InnerRender(f, value, record) ==
  CASE f.kind = "amend" -> Ok(IF isEmpty(value) THEN f.opt["default"] ELSE value)
    [] f.kind = "format" /\ f.name = JoinName ->
         JoinRender(SpreadParams(DEFAULT_FORMAT_OPTIONS(JoinName), f.opt), value, record)
    [] f.kind = "format" /\ f.name # JoinName -> FormatRender(f.name, f.opt, value)

\* prevRender ? prevRender(value, record, index) : value
PrevOutput(prevRender, value, record) ==
  IF Truthy(prevRender) THEN InnerRender(prevRender, value, record) ELSE Ok(value)

DEFAULT_ELLIPSIS_OPTIONS(name) ==
  CASE name = DefaultName -> EmptyParams
    [] name = SplitName -> [EmptyParams EXCEPT !["by"] = Str(<<47>>), !["showIndex"] = EndName]

\* the render of the truncation default
DefaultEllipsisRender(_d) == IF _d.ok THEN Ok(Tooltip(_d.v, _d.v)) ELSE Thrown

\* values[i] of an array of texts, counted from 0
ElementAt(values, i) == IF i + 1 \in DOMAIN values THEN Str(values[i + 1]) ELSE Undefined

\* the segment the truncation split shows
SplitShown(_opt, values) ==
  CASE _opt["showIndex"] = StartName -> ElementAt(values, 0)
    [] _opt["showIndex"] = EndName -> ElementAt(values, Len(values) - 1)
    [] _opt["showIndex"].t = "number" -> ElementAt(values, _opt["showIndex"].s[1])
    [] OTHER -> Undefined

\* the render of the truncation split: the test is on the output of the
\* previous render, the split and the title are those of the value
SplitEllipsisRender(_opt, _v, value) ==
  IF ~_v.ok THEN Thrown
  ELSE IF _v.v.t = "string"
    THEN IF value.t = "string"
         THEN Ok(Tooltip(value, SplitShown(_opt, Split(value.s, _opt["by"].s[1]))))
         ELSE Thrown
    ELSE Ok(Undefined)

\* a render function applied to (value, record, index)
Render(f, value, record, index) ==
  CASE f.kind = "index" -> Ok(Num(index + 1))
    [] f.kind = "caller" -> Ok(f.name)
    [] f.kind = "ellipsis" /\ f.name = DefaultName ->
         DefaultEllipsisRender(PrevOutput(f.prev, value, record))
    [] f.kind = "ellipsis" /\ f.name = SplitName ->
         SplitEllipsisRender(SpreadParams(DEFAULT_ELLIPSIS_OPTIONS(SplitName), f.opt),
                             PrevOutput(f.prev, value, record), value)
    [] OTHER -> InnerRender(f, value, record)

(***************************************************************************)
(* useTable: columns.  A column is an object over ColumnKeys.               *)
(***************************************************************************)
ColumnKeys == {"title", "dataIndex", "key", "width", "format", "amend", "default", "group",
               "ellipsis", "render"}
EmptyColumn == [k \in ColumnKeys |-> Absent]

\* { ...a, ...b } for columns; spreading undefined adds nothing
SpreadColumn(a, b) ==
  IF b \in {Absent, Undefined} THEN a
  ELSE [k \in ColumnKeys |-> IF b[k] # Absent THEN b[k] ELSE a[k]]

\* Column(title, options): the metadata of a field
Column(title, key, _options) ==
  SpreadColumn([EmptyColumn EXCEPT !["title"] = title, !["dataIndex"] = Str(KeyText(key))],
               _options)

DEFAULT_EMPTY_VALUE == Str(<<45>>)

\* the truncation render and the ellipsis option after ellipsisRender
ellipsisRender(ellipsis, prevRender) ==
  IF ellipsis = Bool(TRUE)
  THEN [render |-> EllipsisFunction(DefaultName, NoParams, prevRender),
        ellipsis |-> [EmptyParams EXCEPT !["showTitle"] = Bool(FALSE)]]
  ELSE [render |-> IF ellipsis.t = "string"
                   THEN EllipsisFunction(ellipsis, NoParams, prevRender)
                   ELSE EllipsisFunction(ellipsis.name, ellipsis.params, prevRender),
        ellipsis |-> ellipsis]

RESET_LOCAL_OPTIONS ==
  [EmptyColumn EXCEPT !["format"] = Undefined, !["amend"] = Undefined,
                      !["default"] = Undefined, !["group"] = Undefined]

\* groupCheck(setting, target); without a result for a setting that is
\* neither a text nor an array, which the caller takes as false
groupCheck(setting, target) ==
  IF ~Truthy(setting) THEN TRUE
  ELSE IF setting.t = "string" THEN setting = target
  ELSE IF setting.t = "strarray"
    THEN target.t = "string" /\ \E i \in DOMAIN Elements(setting) : Elements(setting)[i] = target.s
  ELSE FALSE

\* _options.default ?? DEFAULT_EMPTY_VALUE
ColumnDefault(_options) == Coalesce(_options["default"], DEFAULT_EMPTY_VALUE)

\* the render before the truncation: the render of the format, or the
\* empty-value substitution when there is none and amend is set
ValueRender(_options) ==
  IF Truthy(formatGenerate(Prop(_options, "format"), ColumnDefault(_options)))
  THEN formatGenerate(Prop(_options, "format"), ColumnDefault(_options))
  ELSE IF Truthy(Prop(_options, "amend")) THEN AmendFunction(ColumnDefault(_options))
  ELSE Undefined

\* the column of a field: the options without the local ones, the composed
\* render, and the override of the caller over them
FieldColumn(_options, override) ==
  SpreadColumn(
    SpreadColumn(
      SpreadColumn(
        IF Truthy(Prop(_options, "ellipsis"))
        THEN [_options EXCEPT !["default"] = ColumnDefault(_options),
                             !["ellipsis"] = ellipsisRender(_options["ellipsis"],
                                                            ValueRender(_options)).ellipsis]
        ELSE [_options EXCEPT !["default"] = ColumnDefault(_options)],
        RESET_LOCAL_OPTIONS),
      [EmptyColumn EXCEPT !["render"] =
         IF Truthy(Prop(_options, "ellipsis"))
         THEN ellipsisRender(_options["ellipsis"], ValueRender(_options)).render
         ELSE ValueRender(_options)]),
    override)

\* the index column
IndexColumn ==
  [EmptyColumn EXCEPT !["title"] = Str(<<24207, 21495>>), !["key"] = Str(<<105, 110, 100, 101, 120>>),
                      !["width"] = Num(50), !["render"] = IndexFunction]

\* extend?.[k], mount?.[k]
Entry(map, k) == IF map = NoObject THEN Undefined ELSE Prop(map, k)

\* what the field k of the class adds to the result
FieldColumns(_options, k, extend, group, mount) ==
  IF _options # Undefined /\ groupCheck(Prop(_options, "group"), group)
  THEN <<FieldColumn(_options, Entry(extend, k))>> \o
       (IF Entry(mount, k) # Undefined THEN <<Entry(mount, k)>> ELSE <<>>)
  ELSE <<>>

\* a resolver that puts the index column after the columns of the fields
useColumns_indexAfterFields(Clz, additional, extend, group, mount, withIndex) ==
  Concat([i \in DOMAIN Clz |-> FieldColumns(Clz[i].options, Clz[i].key, extend, group, mount)]) \o
  (IF withIndex THEN <<IndexColumn>> ELSE <<>>) \o
  additional

\* useColumns(Clz, additional, extend, group, mount, withIndex); Clz is the
\* sequence of the own keys of an instance, each with its metadata
useColumns(Clz, additional, extend, group, mount, withIndex) ==
  (IF withIndex THEN <<IndexColumn>> ELSE <<>>) \o
  Concat([i \in DOMAIN Clz |-> FieldColumns(Clz[i].options, Clz[i].key, extend, group, mount)]) \o
  additional

(***************************************************************************)
(* useTable: the table of a list page.                                      *)
(***************************************************************************)
\* the values of the cells: nothing, the empty text, zero, an amount, a path
\* and a date
IsoSample == <<50, 48, 50, 48, 45, 48, 49, 45, 48, 50, 84, 48, 51, 58, 48, 52, 58, 48, 53>>
PathSample == <<97, 47, 98, 47, 99>>
CellValues == {Undefined, Null, Str(<<>>), Num(0), Dec(1234, 50), Str(PathSample), Str(IsoSample)}
RowIndexes == {0, 1}

\* the row of a value: the value under a, a name under b
RowOf(value) == [EmptyObject EXCEPT !["a"] = value, !["b"] = Str(<<110>>)]

\* the format and the truncation options of the columns
FormatSpecs ==
  { DateName, Pair(DateName, EmptyParams),
    Pair(DateName, [EmptyParams EXCEPT !["default"] = Str(<<63>>)]),
    DateTimeName, Pair(DateTimeName, EmptyParams),
    MoneyName, Pair(MoneyName, EmptyParams),
    Pair(MoneyName, [EmptyParams EXCEPT !["default"] = Str(<<63>>)]),
    NumberName, Pair(NumberName, [EmptyParams EXCEPT !["digits"] = Num(2)]),
    IntName,
    ConstantName, Pair(ConstantName, [EmptyParams EXCEPT !["origin"] = StatusEnum]),
    JoinName, Pair(JoinName, [EmptyParams EXCEPT !["with"] = Str(<<98>>)]),
    Pair(JoinName, [EmptyParams EXCEPT !["with"] = Str(<<98>>), !["format"] = MoneyName]) }
EllipsisSpecs ==
  { Bool(TRUE), DefaultName, SplitName,
    Pair(SplitName, [EmptyParams EXCEPT !["showIndex"] = StartName]),
    Pair(SplitName, [EmptyParams EXCEPT !["showIndex"] = Num(1)]) }

\* the options a field is annotated with
LocalOptions ==
  { [EmptyColumn EXCEPT !["format"] = f, !["amend"] = a, !["default"] = d, !["ellipsis"] = e] :
      f \in FormatSpecs \cup {Absent}, a \in {Absent, Bool(TRUE)},
      d \in {Absent, Str(<<48>>)}, e \in EllipsisSpecs \cup {Absent} }

\* a field of a class: its key and its metadata, undefined without annotation
Field(key, _options) == [key |-> key, options |-> _options]

\* sample classes: annotated fields with a group, with groups and without,
\* and a field that is not annotated
GroupOne == Str(<<103, 49>>)
GroupTwo == Str(<<103, 50>>)
GroupThree == Str(<<103, 51>>)
FieldA ==
  Field("a", Column(Str(<<65>>), "a",
                    [EmptyColumn EXCEPT !["group"] = GroupOne, !["width"] = Num(80),
                                        !["format"] = Pair(MoneyName, EmptyParams)]))
FieldB ==
  Field("b", Column(Str(<<66>>), "b",
                    [EmptyColumn EXCEPT !["amend"] = Bool(TRUE), !["ellipsis"] = Bool(TRUE)]))
FieldPage == Field("page", Undefined)
FieldSize ==
  Field("pageSize", Column(Str(<<83>>), "pageSize",
                           [EmptyColumn EXCEPT !["group"] = StrArr(<<GroupOne.s, GroupTwo.s>>)]))
Classes == { <<>>, <<FieldA, FieldB, FieldPage, FieldSize>>, <<FieldSize, FieldPage, FieldB, FieldA>> }
Groups == {Undefined, GroupOne, GroupTwo, GroupThree}

\* columns of the caller: overrides, mounted columns, additional columns
OverrideA == [EmptyColumn EXCEPT !["title"] = Str(<<65, 50>>), !["render"] = CallerFunction(Str(<<111>>))]
MountA == [EmptyColumn EXCEPT !["title"] = Str(<<109, 65>>), !["render"] = CallerFunction(Str(<<109>>))]
MountSize == [EmptyColumn EXCEPT !["title"] = Str(<<109, 83>>), !["dataIndex"] = Str(KeyText("b"))]
ExtraOne == [EmptyColumn EXCEPT !["title"] = Str(<<120, 49>>), !["dataIndex"] = Str(KeyText("a"))]
ExtraTwo == [EmptyColumn EXCEPT !["title"] = Str(<<120, 50>>), !["render"] = CallerFunction(Str(<<120>>))]
Extends == { NoObject, [EmptyObject EXCEPT !["a"] = OverrideA],
             [EmptyObject EXCEPT !["page"] = OverrideA] }
Mounts == { NoObject, [EmptyObject EXCEPT !["a"] = MountA],
            [EmptyObject EXCEPT !["a"] = MountA, !["pageSize"] = MountSize] }
Additionals == { <<>>, <<ExtraOne, ExtraTwo>> }

\* a table with these arguments of useColumns, before its first render
TableOf(Clz, additional, extend, group, mount, withIndex) ==
  [NoTable EXCEPT !.Clz = Clz, !.additional = additional, !.extend = extend,
                  !.group = group, !.mount = mount, !.withIndex = withIndex]

\* the render of the component: useColumns computes the columns
UseColumns ==
  /\ ~table.resolved
  /\ table' = [table EXCEPT
                 !.resolved = TRUE,
                 !.columns = useColumns(table.Clz, table.additional, table.extend,
                                        table.group, table.mount, table.withIndex)]
  /\ UNCHANGED <<options, loading, pageData, searchData, pagination, storage, link,
                 cacheEntry, requests, call, settled, mounted, renders, engineTriggers>>

\* the value the widget gives the render of a column: record[dataIndex]; the
\* renders of the columns without dataIndex do not read it
CellValue(column, record) ==
  IF Truthy(Prop(column, "dataIndex")) THEN Prop(record, KeyNamed(column["dataIndex"].s))
  ELSE Undefined

\* what the widget shows in a cell: the result of the render of the column,
\* the value itself for a column without render
CellOutcome(column, record, index) ==
  IF Truthy(Prop(column, "render"))
  THEN Render(column["render"], CellValue(column, record), record, index)
  ELSE Ok(CellValue(column, record))

\* the widget renders the cell of a column for a row
RenderCell ==
  /\ table.resolved
  /\ \E i \in DOMAIN table.columns, value \in CellValues, index \in RowIndexes :
       table' = [table EXCEPT
                   !.cell = [column |-> i, value |-> CellValue(table.columns[i], RowOf(value)),
                             index |-> index,
                             outcome |-> CellOutcome(table.columns[i], RowOf(value), index)]]
  /\ UNCHANGED <<options, loading, pageData, searchData, pagination, storage, link,
                 cacheEntry, requests, call, settled, mounted, renders, engineTriggers>>

ColumnNext == UseColumns \/ RenderCell


Spec == Init /\ [][Next]_vars

\* engines without persistence, with or without a request on mount
FairInit ==
  \E ir \in BOOLEAN, ip \in {NoObject, PageQuery(2, 20)} :
    FirstRender(OptionsOf(ir, "off", "off", "base64", NoObject, PayloadInitial, ip),
                NullText, NullText)

\* the effect of the first render runs, and every started fetch settles
FairSpec == FairInit /\ [][Next]_vars /\ WF_vars(Mount) /\ WF_vars(Resolve \/ Reject)

StoreSpec == StoreInit /\ [][Next]_vars

CodecSpec == CodecInit /\ [][Next]_vars

\* engines with or without an initial payload, created over a link that has
\* no _q parameter, an empty one, one an earlier engine wrote, or one that is
\* no encoded state
PersistInit ==
  \E sy \in SyncModes, ca \in CacheModes, fmt \in Formats :
    \E initial \in {NoObject, PayloadInitial}, lnk \in Links(fmt) \cup {Text(<<>>)} :
      /\ initial # NoObject => lnk = NullText
      /\ FirstRender(OptionsOf(TRUE, sy, ca, fmt, NoObject, initial, NoObject), NullText, lnk)

PersistSpec == PersistInit /\ [][Next]_vars

\* a table over an engine without persistence
TableInit ==
  \E ir \in BOOLEAN, st \in {NoObject, StaticPayload} :
    FirstRender(OptionsOf(ir, "off", "off", "base64", st, PayloadInitial, NoObject),
                NullText, NullText)

TableSpec == TableInit /\ [][TableNext]_vars

\* a table of one annotated field, over every combination of local options
RenderInit ==
  \E lo \in LocalOptions :
    FirstRenderWithTable(OptionsOf(FALSE, "off", "off", "base64", NoObject, PayloadInitial, NoObject),
                         NullText, NullText,
                         TableOf(<<Field("a", Column(Str(<<65>>), "a", lo))>>, <<>>, NoObject,
                                 Undefined, NoObject, FALSE))

RenderSpec == RenderInit /\ [][ColumnNext]_vars

\* tables over the sample classes and every combination of the other
\* arguments of useColumns
ColumnInit ==
  \E Clz \in Classes, additional \in Additionals, extend \in Extends, group \in Groups,
     mount \in Mounts, withIndex \in BOOLEAN :
    FirstRenderWithTable(OptionsOf(FALSE, "off", "off", "base64", NoObject, PayloadInitial, NoObject),
                         NullText, NullText,
                         TableOf(Clz, additional, extend, group, mount, withIndex))

ColumnSpec == ColumnInit /\ [][ColumnNext]_vars

(***************************************************************************)
(* Properties of the search state engine.                                   *)
(***************************************************************************)
\* C1 (as the code has it): after a trigger call that supplies a query payload
\* the page of the engine is 1, whatever pagination argument came with it, and
\* the fetch of that call is invoked with page 1 unless the static payload has
\* a page of its own, which it is then invoked with.
C1_PayloadResetsPage ==
  (call.id # 0 /\ call.searchData # NoObject) =>
    /\ pagination["page"] = Num(1)
    /\ call.args["page"] = IF Has(options.staticSearchData, "page")
                           THEN options.staticSearchData["page"]
                           ELSE Num(1)

\* C1 as stated: after a trigger call that supplies a query payload the page
\* of the engine is 1 and the fetch of that call is invoked with page 1.
C1_AsStated ==
  (call.id # 0 /\ call.searchData # NoObject) =>
    (pagination["page"] = Num(1) /\ call.args["page"] = Num(1))

\* a payload and page 3 at the size the engine has: the page is 1 all the same
C1_Witness ==
  /\ call.searchData = PayloadY
  /\ call.pagination = PageQuery(3, 10)
  /\ pagination = PageQuery(1, 10)
  /\ call.args["page"] = Num(1)

\* C2 (as the code has it): a trigger call with only a pagination argument
\* makes the page size of the engine the size of the argument; the page
\* becomes the page of the argument when that size is the size the engine had,
\* and 1 when it is not.
C2_PaginationOnly ==
  [][(call'.id # call.id /\ call'.searchData = NoObject /\ call'.pagination # NoObject) =>
       /\ pagination'["pageSize"] = call'.pagination["pageSize"]
       /\ pagination'["page"] = IF pagination["pageSize"] = call'.pagination["pageSize"]
                                THEN call'.pagination["page"]
                                ELSE Num(1)]_vars

\* C2 as stated: with the same size the page stays the page the engine held
\* before the call.
C2_AsStated ==
  [][(call'.id # call.id /\ call'.searchData = NoObject /\ call'.pagination # NoObject) =>
       /\ pagination'["pageSize"] = call'.pagination["pageSize"]
       /\ pagination'["page"] = IF pagination["pageSize"] = call'.pagination["pageSize"]
                                THEN pagination["page"]
                                ELSE Num(1)]_vars

\* page 3 was asked for at the size the engine had, and the engine is at page 3
C2_Witness ==
  /\ call.searchData = NoObject
  /\ call.pagination = PageQuery(3, 10)
  /\ pagination = PageQuery(3, 10)
  /\ options.initialPagination = NoObject

\* C3 (as the code has it): trigger(undefined, {page: p, pageSize: s}) leaves
\* the engine at page p when s is the size it had, and at page 1 with size s
\* when it is not; the fetch of that call receives this page and this size,
\* except for the one of the two the static payload has a value of its own
\* for, which it receives instead.
C3_PaginationReachesFetch ==
  [][(call'.id # call.id /\ call'.searchData = NoObject /\ call'.pagination # NoObject) =>
       /\ pagination' = [pagination EXCEPT
            !["page"] = IF pagination["pageSize"] = call'.pagination["pageSize"]
                        THEN call'.pagination["page"] ELSE Num(1),
            !["pageSize"] = call'.pagination["pageSize"]]
       /\ \A k \in {"page", "pageSize"} :
            call'.args[k] = IF Has(options.staticSearchData, k)
                            THEN options.staticSearchData[k]
                            ELSE pagination'[k]]_vars

\* C3 as stated: the fetch receives exactly the resulting page and size.
C3_AsStated ==
  [][(call'.id # call.id /\ call'.searchData = NoObject /\ call'.pagination # NoObject) =>
       /\ pagination' = [pagination EXCEPT
            !["page"] = IF pagination["pageSize"] = call'.pagination["pageSize"]
                        THEN call'.pagination["page"] ELSE Num(1),
            !["pageSize"] = call'.pagination["pageSize"]]
       /\ \A k \in {"page", "pageSize"} : call'.args[k] = pagination'[k]]_vars

\* page 3 was asked for at size 20 by an engine at size 10: page 1, size 20,
\* and the fetch received them
C3_Witness ==
  /\ call.searchData = NoObject
  /\ call.pagination = PageQuery(3, 20)
  /\ pagination = PageQuery(1, 20)
  /\ call.args["page"] = Num(1)
  /\ call.args["pageSize"] = Num(20)

\* C4: the loading flag is true when the fetch of a trigger call is invoked,
\* a settlement of a fetch (resolved or rejected) leaves it false, and when
\* every started fetch settles the engine is idle from some point on.
C4_LoadingLifecycle ==
  /\ [](call.id # 0 => call.loadingAtFetch)
  /\ [][settled' # settled => ~loading']_vars
  /\ <>[](~loading)

\* two fetches were started, both have settled, the last by a rejection, and
\* the engine is idle
C4_Witness ==
  /\ Started = 2
  /\ \A i \in DOMAIN requests : requests[i] # "pending"
  /\ call.loadingAtFetch
  /\ settled.fetch = "rejected"
  /\ ~loading

\* C5: right after a fetch settles, resolved or rejected, overlapped or not,
\* what was last written to every enabled store is the encoding of the query
\* payload the engine holds: the session entry is that text, the link was
\* given that text for its parameter, and the copy the engine returns is that
\* text.
C5_PersistedMatchesPayload ==
  [][settled' # settled =>
       /\ (SyncOn(options) \/ CacheOn(options)) =>
            storage' = encodeQueryData(searchData', options.storageFormat)
       /\ CacheOn(options) => cacheEntry' = Text(storage')
       /\ options.sync = "url" => link' = generateNewUrl(link, storage')]_vars

\* two triggers overlapped, the first fetch has settled while the second is
\* pending, and both stores hold the payload of the second
C5_Witness ==
  /\ settled.id = 1
  /\ requests[2] = "pending"
  /\ call.searchData = PayloadX
  /\ options.sync = "url"
  /\ CacheOn(options)
  /\ cacheEntry = Text(encodeQueryData(PayloadX, options.storageFormat))
  /\ link.present

\* C6: before any trigger, the query payload of the engine is, key by key,
\* the value of the link payload when sync is enabled and the link payload has
\* the key, else the value of the cached payload when cache is enabled and the
\* cached payload has the key, else the declared initial value; the static
\* payload takes no part.
C6_InitialPrecedence ==
  Started = 0 =>
    LET fromUrl == getFromUrl(link, options.storageFormat).v
        fromCache == getFromCache(cacheEntry, options.storageFormat).v
    IN \A k \in Keys :
         searchData[k] =
           IF SyncOn(options) /\ HasKey(fromUrl, k) THEN fromUrl[k]
           ELSE IF CacheOn(options) /\ HasKey(fromCache, k) THEN fromCache[k]
           ELSE options.initialSearchData[k]

\* all three sources hold something: a is the link's, b the cache's, page the
\* declared one (and not the static payload's)
C6_Witness ==
  /\ Started = 0
  /\ SyncOn(options) /\ CacheOn(options)
  /\ link.present /\ cacheEntry.present
  /\ options.staticSearchData["page"] = Num(9)
  /\ searchData = [EmptyObject EXCEPT !["a"] = Str(<<108>>), !["b"] = Str(<<99>>),
                                      !["page"] = Num(4)]

\* C7 (as the code has it): in the base64 format, decode(encode(payload)) is
\* the payload restricted to its useful entries, with null in the place of a
\* useful value JSON has no text for (NaN); the same is read from the session
\* entry and from the link parameter after the encoded text was written there.
C7_Base64RoundTrip ==
  LET e == encodeQueryData(searchData, "base64")
      expected == [k \in Keys |-> IF UsefulPart(searchData)[k] = NaN THEN Null
                                  ELSE UsefulPart(searchData)[k]]
  IN /\ decodeQueryData(Text(e), "base64") = Ok(expected)
     /\ getFromCache(setCache(e), "base64") = Ok(expected)
     /\ getFromUrl(setToUrl(link, e), "base64") = Ok(expected)
     /\ (settled.id # 0 /\ storage = e) =>
          /\ getFromCache(cacheEntry, "base64") = Ok(expected)
          /\ getFromUrl(link, "base64") = Ok(expected)

\* C7 as stated: decode(encode(payload)) is the payload restricted to its
\* useful entries, also through the stores.
C7_AsStated ==
  LET e == encodeQueryData(searchData, "base64")
  IN /\ decodeQueryData(Text(e), "base64") = Ok(UsefulPart(searchData))
     /\ getFromCache(setCache(e), "base64") = Ok(UsefulPart(searchData))
     /\ getFromUrl(setToUrl(link, e), "base64") = Ok(UsefulPart(searchData))

\* a payload of useful values only, with a string of characters that need
\* every layer of escaping, was persisted and is read back from the link
C7_Witness ==
  /\ settled.id # 0
  /\ searchData["b"] = Str(<<228, 20013, 34, 37, 32, 43>>)
  /\ UsefulPart(searchData) = searchData
  /\ link.present
  /\ getFromUrl(link, "base64") = Ok(searchData)

\* C8: the engine itself has invoked trigger once when it is mounted and
\* configured to request on mount, and never otherwise, however often the
\* component was rendered again; that call had no arguments and is the first
\* fetch; an engine not so configured has started no fetch before the caller's
\* first trigger.
C8_RequestOnMountOnce ==
  /\ engineTriggers = (IF mounted /\ options.initRequest THEN 1 ELSE 0)
  /\ call.byEngine => (call.searchData = NoObject /\ call.pagination = NoObject)
  /\ (mounted /\ options.initRequest) => requests[1] # "none"
  /\ (~options.initRequest /\ call.id = 0) => Started = 0

\* mounted, rendered again, a caller's trigger after the engine's own
C8_Witness ==
  /\ mounted
  /\ options.initRequest
  /\ renders = 1
  /\ Started = 2
  /\ engineTriggers = 1

\* C9: the fetch of a trigger call is invoked with, key by key, the value of
\* the static payload when it has the key, else the value of the pagination
\* after the update of the call when it has the key, else the value of the
\* query payload after the update of the call.
C9_FetchArgsMerge ==
  call.id # 0 =>
    \A k \in Keys :
      call.args[k] = IF Has(options.staticSearchData, k) THEN options.staticSearchData[k]
                     ELSE IF HasKey(pagination, k) THEN pagination[k]
                     ELSE searchData[k]

\* query payload, pagination and static payload all have a page, the query
\* and the static payload both have a
C9_Witness ==
  /\ call.searchData = PayloadY
  /\ options.staticSearchData = StaticPayload
  /\ call.args = [EmptyObject EXCEPT !["a"] = Str(<<115>>), !["b"] = Str(<<>>),
                                     !["page"] = Num(9), !["pageSize"] = Num(10)]

\* C10: when the fetch of a trigger call rejects, the promise trigger returned
\* rejects with the error of the fetch, no fetch is started, the page data is
\* what it was, the query payload is persisted and the loading flag is false.
C10_RejectionPassesThrough ==
  [][(settled' # settled /\ settled'.fetch = "rejected") =>
       /\ settled'.state = "rejected"
       /\ settled'.reason = settled'.fetchReason
       /\ Started' = Started
       /\ requests'[settled'.id] = "settled"
       /\ pageData' = pageData
       /\ ~loading'
       /\ (SyncOn(options) \/ CacheOn(options)) =>
            storage' = encodeQueryData(searchData, options.storageFormat)
       /\ CacheOn(options) => cacheEntry' = setCache(storage')
       /\ options.sync = "url" => link' = setToUrl(link, storage')]_vars

\* a fetch resolved, a later one was rejected: the page data is still the
\* first one's, the stores were written, the engine is idle
C10_Witness ==
  /\ settled.id = 2
  /\ settled.state = "rejected"
  /\ settled.reason = "refused"
  /\ pageData.req = 1
  /\ CacheOn(options)
  /\ storage # <<>>
  /\ cacheEntry = Text(storage)
  /\ ~loading

\* C14 as stated: in both storage formats the text a settlement persists is
\* the encoding of the payload without its non-useful entries (undefined, null,
\* the empty string, the empty list), and the empty string when the payload
\* has no useful entry.
C14_AsStated ==
  [][(settled'.id # settled.id /\ (SyncOn(options) \/ CacheOn(options))) =>
       /\ storage' = encodeQueryData(UsefulPart(searchData'), options.storageFormat)
       /\ (UsefulPart(searchData') = EmptyObject => storage' = <<>>)]_vars

\* C15 (as the code has it): the link parameter, the session entry and the
\* exposed string change only in the step in which a fetch settles. That step
\* sets the link parameter only in sync mode 'url': to the escaped encoded
\* string when that is not empty, and otherwise the parameter is removed,
\* except that a parameter that was present with an empty value stays as it
\* is. It sets the session entry only when the cache is on, to the encoded
\* string, empty or not. In copy mode with the cache off only the exposed
\* string changes; with sync and cache off nothing changes and the exposed
\* string is empty.
C15_StoresWrittenOnSettle ==
  [][/\ settled' = settled => (link' = link /\ cacheEntry' = cacheEntry /\ storage' = storage)
     /\ settled' # settled =>
          /\ IF options.sync = "url"
             THEN IF storage' # <<>>
                  THEN link' = Text(FormUrlEncode(encodeURIComponent(storage')))
                  ELSE \/ link' = NullText
                       \/ link' = link /\ link = Text(<<>>)
             ELSE link' = link
          /\ IF CacheOn(options) THEN cacheEntry' = Text(storage')
             ELSE cacheEntry' = cacheEntry
          /\ IF SyncOn(options) \/ CacheOn(options)
             THEN storage' = encodeQueryData(searchData', options.storageFormat)
             ELSE storage' = storage /\ storage = <<>>]_vars

\* C15 as stated: as above, but whenever the encoded string is empty the step
\* in sync mode 'url' leaves the link without the parameter.
C15_AsStated ==
  [][settled' # settled /\ options.sync = "url" /\ storage' = <<>> => link' = NullText]_vars

\* an engine in sync mode 'url' with the cache on, created over a link whose
\* parameter is present and empty, settled its first fetch with a payload
\* without entries: the session entry holds the empty string and the link
\* still has the empty parameter
C15_Witness ==
  /\ options.sync = "url" /\ CacheOn(options)
  /\ settled.id = 1
  /\ searchData = EmptyObject
  /\ storage = <<>>
  /\ link = Text(<<>>)
  /\ cacheEntry = Text(<<>>)

\* C16: a trigger call leaves every fetch that is in flight in flight, and the
\* page data changes only when a fetch settles: a fetch that resolves makes its
\* result the page data, whether or not a later trigger call was made and
\* whether or not the fetch of a later call has settled already; a fetch that
\* rejects leaves the page data alone. So the page data is the result of the
\* successful fetch that settled last, whatever the order of the calls.
C16_StaleResultApplied ==
  [][/\ call'.id # call.id =>
          \A i \in DOMAIN requests : requests[i] = "pending" => requests'[i] = "pending"
     /\ settled' = settled => pageData' = pageData
     /\ settled' # settled =>
          /\ requests[settled'.id] = "pending"
          /\ IF settled'.fetch = "fulfilled"
             THEN pageData'.req = settled'.id /\ pageData'.page \in ResultPages
             ELSE pageData' = pageData]_vars

\* two calls were made, the second with a payload and another page size; both
\* fetches have settled, the one of the first call last and with a result: the
\* page data is the result of the first call, the payload and the pagination
\* are those of the second
C16_Witness ==
  /\ call.id = 2
  /\ call.searchData = PayloadY
  /\ call.loadingAtFetch
  /\ requests[1] = "settled" /\ requests[2] = "settled"
  /\ settled.id = 1 /\ settled.fetch = "fulfilled"
  /\ pageData.req = 1
  /\ searchData = PayloadY
  /\ pagination = PageQuery(1, 20)
  /\ ~loading

\* C19: the query payload and the pagination of the engine change only in a
\* trigger call. A step that is no trigger call (a settlement with its
\* persistence, whatever page the result carries, the mount effect of an
\* engine without a request on mount, a re-evaluation) leaves both unchanged;
\* a trigger call without a payload and without a pagination leaves both
\* unchanged too and fetches with the values held.
C19_ChangedOnlyByTrigger ==
  [][/\ call'.id = call.id => (searchData' = searchData /\ pagination' = pagination)
     /\ (call'.id # call.id /\ call'.searchData = NoObject /\ call'.pagination = NoObject) =>
          /\ searchData' = searchData
          /\ pagination' = pagination
          /\ call'.args = FetchArgs(searchData, pagination, options.staticSearchData)]_vars

\* after a call with a payload the caller triggered again without arguments;
\* the fetch of that call resolved with a page that is not the page of the
\* engine and the component was evaluated again: the payload is the one of the
\* first call, the page is 1
C19_Witness ==
  /\ call.id = 2
  /\ call.searchData = NoObject /\ call.pagination = NoObject
  /\ ~call.byEngine
  /\ call.args["a"] = Str(<<120>>)
  /\ settled.id = 2 /\ pageData.req = 2 /\ pageData.page = 5
  /\ renders = 1
  /\ searchData = PayloadX
  /\ pagination["page"] = Num(1)

\* some fetch a trigger call started has not settled
FetchInFlight == \E i \in DOMAIN requests : requests[i] = "pending"

\* C20 (as the code has it): in every reachable state, if a fetch is in
\* flight and no fetch has settled since the latest trigger call, the loading
\* flag is true; once a fetch has settled after the latest trigger call the
\* flag is false, also when the fetch of another call is still in flight.
C20_LoadingUntilSettlement ==
  /\ (FetchInFlight /\ (settled.id = 0 \/ settled.atCall # call.id)) => loading
  /\ (settled.id # 0 /\ settled.atCall = call.id) => ~loading

\* C20 as stated: in every reachable state, if a fetch is in flight the
\* loading flag is true.
C20_AsStated == FetchInFlight => loading

\* two calls overlapped and the fetch of the first settled while the fetch of
\* the second is in flight: the flag is false
C20_Witness ==
  /\ requests[1] = "settled" /\ requests[2] = "pending"
  /\ settled.id = 1 /\ settled.atCall = 2
  /\ ~loading

(***************************************************************************)
(* Properties of the table facade.                                          *)
(***************************************************************************)
\* C11: when the pagination control of the table reports a change to (page,
\* size), the trigger function is called with no query payload and the
\* pagination {page, pageSize: size}: the payload of the engine stays what it
\* was, the size of the engine becomes the reported size, and when that is the
\* size the engine had, the page becomes the reported page and is not reset.
C11_ControlChangeTriggers ==
  [][table'.changes # table.changes =>
       /\ call'.id # call.id
       /\ call'.searchData = NoObject
       /\ call'.pagination = PageQuery(table'.change.page, table'.change.size)
       /\ searchData' = searchData
       /\ pagination'["pageSize"] = Num(table'.change.size)
       /\ (pagination["pageSize"] = Num(table'.change.size) =>
             pagination'["page"] = Num(table'.change.page))]_vars

\* the control reported page 3 at the size the engine had, after a payload
\* was submitted: the payload is kept and the page is 3
C11_Witness ==
  /\ table.changes = 1
  /\ table.change = [page |-> 3, size |-> 10]
  /\ call.id = 2
  /\ searchData = PayloadX
  /\ pagination = PageQuery(3, 10)
  /\ call.args["page"] = Num(3)

\* C12 as stated, for the formats date and datetime: a column with such a
\* format, given as a bare name or as a pair, and without truncation renders
\* a value that is not useful as the default of the format parameters when
\* they have one and as the default of the column otherwise ("-" when the
\* column declares none), and renders a useful value as the formatted date.
C12_AsStated ==
  LET meta == table.Clz[1].options
      format == Prop(meta, "format")
      name == IF format.t = "pair" THEN format.name ELSE format
      explicit == IF format.t = "pair" THEN Prop(format.params, "default") ELSE Undefined
  IN (table.cell.column # 0 /\ name \in {DateName, DateTimeName} /\ meta["ellipsis"] = Absent) =>
       table.cell.outcome =
         IF ~isUsefulValue(table.cell.value)
         THEN Ok(IF explicit # Undefined THEN explicit
                 ELSE Coalesce(meta["default"], DEFAULT_EMPTY_VALUE))
         ELSE Ok(momentFormat(table.cell.value,
                              IF name = DateName THEN DatePattern ELSE DateTimePattern))

\* C13 as stated, for the columns whose format is date or datetime: whatever
\* the truncation and the value, the render of the column does not raise an
\* error.
C13_AsStated ==
  LET meta == table.Clz[1].options
      format == Prop(meta, "format")
      name == IF format.t = "pair" THEN format.name ELSE format
  IN (table.cell.column # 0 /\ name \in {DateName, DateTimeName}) => table.cell.outcome.ok

\* C17: the columns useColumns returns are the index column when one is
\* asked for, then for every annotated field that passes the group filter, in
\* the order of the class, its column followed by its mounted column when
\* there is one, then the additional columns as they are.  The column of a
\* field has the title and the dataIndex of the annotation unless the override
\* of the caller sets them, and every key the override sets has the value of
\* the override.  A field passes when its annotation has no group, has the
\* group asked for, or has a list of groups with the group asked for in it.
C17_ResolverOrder ==
  LET passes(f) ==
        /\ f.options # Undefined
        /\ \/ f.options["group"] = Absent
           \/ f.options["group"] = table.group
           \/ /\ f.options["group"].t = "strarray"
              /\ table.group.t = "string"
              /\ \E i \in DOMAIN Elements(f.options["group"]) :
                   Elements(f.options["group"])[i] = table.group.s
      passing == SelectSeq(table.Clz, passes)
      mounted_(f) == table.mount # NoObject /\ table.mount[f.key] # Absent
      override(f) == IF table.extend # NoObject /\ table.extend[f.key] # Absent
                     THEN table.extend[f.key] ELSE EmptyColumn
      first == IF table.withIndex THEN 1 ELSE 0
      at[j \in 1..(Len(passing) + 1)] ==
        IF j = 1 THEN first + 1
        ELSE at[j - 1] + 1 + (IF mounted_(passing[j - 1]) THEN 1 ELSE 0)
      columns == table.columns
  IN table.resolved =>
       /\ Len(columns) = at[Len(passing) + 1] - 1 + Len(table.additional)
       /\ table.withIndex => columns[1] = IndexColumn
       /\ \A j \in 1..Len(passing) :
            /\ \A k \in ColumnKeys :
                 columns[at[j]][k] =
                   IF override(passing[j])[k] # Absent THEN override(passing[j])[k]
                   ELSE IF k \in {"title", "dataIndex", "width"} THEN passing[j].options[k]
                   ELSE columns[at[j]][k]
            /\ columns[at[j]]["dataIndex"] = Str(KeyText(passing[j].key))
            /\ mounted_(passing[j]) => columns[at[j] + 1] = table.mount[passing[j].key]
       /\ SubSeq(columns, at[Len(passing) + 1], Len(columns)) = table.additional

\* the fields a, b and pageSize pass the filter g1 and page is not annotated;
\* with an index column, an override and a mounted column for a and two
\* additional columns the result has seven columns in the order index, a,
\* the mounted column, b, pageSize, the additional columns
C17_Witness ==
  /\ table.resolved
  /\ table.Clz = <<FieldA, FieldB, FieldPage, FieldSize>>
  /\ table.group = GroupOne
  /\ Len(table.columns) = 7
  /\ table.columns[1] = IndexColumn
  /\ table.columns[2]["title"] = OverrideA["title"]
  /\ table.columns[2]["dataIndex"] = Str(KeyText("a"))
  /\ table.columns[3] = MountA
  /\ table.columns[4]["dataIndex"] = Str(KeyText("b"))
  /\ table.columns[5]["dataIndex"] = Str(KeyText("pageSize"))
  /\ table.columns[6] = ExtraOne /\ table.columns[7] = ExtraTwo

\* C18 as stated, for the columns whose format is date or datetime: when the
\* column has a truncation too and its render shows a cell, what the cell
\* shows is computed from the output of the format for the value: that output
\* for the truncation default, the segment of that output for the truncation
\* split.
C18_AsStated ==
  LET meta == table.Clz[1].options
      format == Prop(meta, "format")
      name == IF format.t = "pair" THEN format.name ELSE format
      render == table.columns[table.cell.column]["render"]
      previous == PrevOutput(render.prev, table.cell.value, RowOf(table.cell.value))
      _opt == SpreadParams(DEFAULT_ELLIPSIS_OPTIONS(SplitName), render.opt)
  IN (/\ table.cell.column # 0
      /\ name \in {DateName, DateTimeName}
      /\ meta["ellipsis"] # Absent
      /\ table.cell.outcome.ok
      /\ table.cell.outcome.v.t = "tooltip") =>
       table.cell.outcome.v.child =
         IF render.name = DefaultName THEN previous.v
         ELSE SplitShown(_opt, Split(previous.v.s, _opt["by"].s[1]))

====
